---------------------------- MODULE Spec2Model ----------------------------
(***************************************************************************)
(* 41Agent: the chat turn of the Orchestrator (_send_message), the         *)
(* tool-call extraction (_extract_tool_calls), the dispatch loop           *)
(* (_execute_tool_calls) and the avatar controller (Inochi2dController).   *)
(*                                                                         *)
(* Text is a sequence of tokens.  The delimiters are two tokens each, so   *)
(* that a stream chunk can end inside a delimiter:                         *)
(*     "<tool_call>"  = <<OpenHead, CallTail>>    ("<tool_" , "call>")     *)
(*     "</tool_call>" = <<CloseHead, CallTail>>   ("</tool_", "call>")     *)
(* A Json token is one JSON object of a tool call; a Word token is plain   *)
(* text.  Avatar parameter values are integers in thousandths.             *)
(***************************************************************************)
EXTENDS Integers, Sequences, FiniteSets, TLC

(***************************************************************************)
(* Bounds of the model                                                     *)
(***************************************************************************)
\* segments (plain words or tool-call spans) in one model response
MaxSegs == 2
\* iterations of the animation loop
MaxTicks == 4
\* start_talking calls, and stop_talking calls, made on the avatar alone
MaxTalks == 2
\* connect calls made on one VMController
MaxConnects == 2
\* calls of _autonomous_behavior in which a random draw succeeds
MaxAutos == 1
\* KEYDOWN events handled by _handle_events
MaxKeys == 4
\* animation tasks that start() has lost the reference to
MaxOrphans == 2
\* calls of get_screenshot
MaxShots == 3

(***************************************************************************)
(* Tokens of a response text                                               *)
(***************************************************************************)
Tok(k, n, a) == [k |-> k, name |-> n, args |-> a]

OpenHead == Tok("<tool_", "", "")

CloseHead == Tok("</tool_", "", "")

CallTail == Tok("call>", "", "")

Word == Tok("word", "", "")

Json(n, a) == Tok("json", n, a)

\* the closed set of operations of _execute_tool_calls
KnownTools ==
    {"vm_click", "vm_type", "vm_screenshot", "vm_press_key",
     "avatar_expression", "avatar_speak", "memory_store", "memory_recall"}

\* the argument key each operation reads with args[...]
RequiredKey(name) ==
    CASE name = "vm_click" -> "x"
      [] name = "vm_type" -> "text"
      [] name = "vm_press_key" -> "key"
      [] name = "avatar_expression" -> "expression"
      [] name = "avatar_speak" -> "text"
      [] name = "memory_store" -> "content"
      [] name = "memory_recall" -> "query"
      [] OTHER -> ""

(***************************************************************************)
(* The JSON objects the model writes in the checked runs.  args is         *)
(*   "valid"   "args": {...} holding the key the operation reads           *)
(*   "invalid" "args": {...} holding the key with a value the operation    *)
(*             rejects (an expression name that is no AvatarExpression)    *)
(*   "none"    no "args": {...} in the object                              *)
(*   "bad"     "args": {...} that json.loads rejects (x: 10, or a nested   *)
(*             object, which the non-greedy {.*?} cuts short)              *)
(* name "" is an object without a "name" field.                            *)
(***************************************************************************)
Payloads ==
    {Json(n, "valid") : n \in KnownTools \cup {"vm_reboot"}}
    \cup {Json("vm_click", "none"), Json("vm_click", "bad"),
          Json("avatar_expression", "invalid"), Json("", "valid")}

\* what the model can write as one segment of its response
\* (a word, a complete span, or a span whose closing delimiter is missing)
Segments ==
    {<<Word>>, <<OpenHead, CallTail, Json("vm_type", "none")>>}
    \cup {<<OpenHead, CallTail, p, CloseHead, CallTail>> : p \in Payloads}

RECURSIVE Texts(_)
\* the responses of at most n segments
Texts(n) ==
    IF n = 0 THEN {<<>>}
    ELSE Texts(n - 1) \cup {t \o s : t \in Texts(n - 1), s \in Segments}

(***************************************************************************)
(* Orchestrator._extract_tool_calls                                        *)
(***************************************************************************)
\* the first position >= from where the two tokens of a delimiter stand, or 0
FindDelim(text, head, from) ==
    LET hits == {i \in from..(Len(text) - 1) :
                    text[i] = head /\ text[i + 1] = CallTail}
    IN  IF hits = {} THEN 0 ELSE CHOOSE i \in hits : \A j \in hits : i <= j

RECURSIVE Matches(_, _)
\* re.findall(r"<tool_call>(.*?)</tool_call>", text, re.DOTALL), scanning from
\* position from: the spans left to right, each with the place of its opening
\* delimiter (at) and the tokens between its delimiters (body)
Matches(text, from) ==
    LET i == FindDelim(text, OpenHead, from)
        j == FindDelim(text, CloseHead, i + 2)
    IN  IF i = 0 \/ j = 0 THEN <<>>
        ELSE <<[at |-> i, body |-> SubSeq(text, i + 2, j - 1)]>>
             \o Matches(text, j + 2)

\* a token in which re.search(r'"name":\s*"([^"]+)"', ...) finds a name
HasName(tok) == tok.k = "json" /\ tok.name # ""

\* a token in which re.search(r'"args":\s*({.*?})', ..., re.DOTALL) finds a block
HasArgs(tok) == tok.k = "json" /\ tok.args # "none"

\* tool_name_match: the first token of the match with a name, or Word (None)
NameMatch(body) ==
    LET hits == {i \in 1..Len(body) : HasName(body[i])}
    IN  IF hits = {} THEN Word
        ELSE body[CHOOSE i \in hits : \A j \in hits : i <= j]

\* args_match: the first token of the match with an args block, or Word (None)
ArgsMatch(body) ==
    LET hits == {i \in 1..Len(body) : HasArgs(body[i])}
    IN  IF hits = {} THEN Word
        ELSE body[CHOOSE i \in hits : \A j \in hits : i <= j]

\* json.loads(args_match.group(1)) raises
JsonLoadsRaises(body) == HasArgs(ArgsMatch(body)) /\ ArgsMatch(body).args = "bad"

\* the body of the for loop: the tool call appended for one match, if any.
\* args is "empty" for the initial {} and else what json.loads returned.
ParseMatch(m) ==
    IF ~HasName(NameMatch(m.body)) THEN <<>>
    ELSE IF JsonLoadsRaises(m.body) THEN <<>>
    ELSE <<[name |-> NameMatch(m.body).name,
            args |-> IF HasArgs(ArgsMatch(m.body))
                     THEN ArgsMatch(m.body).args ELSE "empty",
            at |-> m.at]>>

\* the matches for which "Failed to parse tool call" is written
ParseFailed(m) == HasName(NameMatch(m.body)) /\ JsonLoadsRaises(m.body)

RECURSIVE ParseAll(_)
ParseAll(ms) ==
    IF ms = <<>> THEN <<>> ELSE ParseMatch(Head(ms)) \o ParseAll(Tail(ms))

ExtractToolCalls(text) == ParseAll(Matches(text, 1))

\* the places of the spans reported with "Failed to parse tool call"
ParseWarnings(text) ==
    {Matches(text, 1)[i].at : i \in {k \in 1..Len(Matches(text, 1)) :
                                        ParseFailed(Matches(text, 1)[k])}}

\* "<tool_call>" in response_text
HasOpenTag(text) == FindDelim(text, OpenHead, 1) # 0

(***************************************************************************)
(* Inochi2dController: AvatarState and the parameters sent to the avatar.  *)
(* av.state is AvatarState, av.emitted the last value handed to            *)
(* client.send_message for each parameter sent so far.  starts, stops and  *)
(* falls count the start_talking calls, the stop_talking calls and the     *)
(* writes that turn is_talking from true to false.                         *)
(***************************************************************************)
AvatarExpressions ==
    {"neutral", "happy", "sad", "surprised", "angry", "thinking", "talking",
     "listening"}

\* AvatarState()
DefaultState ==
    [expression |-> "neutral", mouth_open |-> 0, brow_raise |-> 0,
     mouth_smile |-> 0, eye_gaze_x |-> 0, eye_gaze_y |-> 0,
     is_talking |-> FALSE]

\* _send_parameter(name, value)
SendParameter(av, name, value) ==
    [av EXCEPT !.emitted =
        [p \in (DOMAIN av.emitted) \cup {name} |->
            IF p = name THEN value ELSE av.emitted[p]]]

RECURSIVE SendAll(_, _)
\* _send_parameter for each <<name, value>> of sends, in order
SendAll(av, sends) ==
    IF sends = <<>> THEN av
    ELSE SendAll(SendParameter(av, Head(sends)[1], Head(sends)[2]), Tail(sends))

\* the expression_values table of set_expression
ExpressionValues(e) ==
    CASE e = "happy" -> <<(<<"MouthSmileLeft", 1000>>), <<"BrowInnerUp", 500>>>>
      [] e = "sad" -> <<(<<"BrowInnerUp", -500>>), <<"MouthSmileLeft", -500>>>>
      [] e = "surprised" ->
            <<(<<"MouthOpen", 500>>), <<"EyeBlinkLeft", 0>>,
              <<"BrowInnerUp", 1000>>>>
      [] e = "angry" -> <<(<<"BrowInnerUp", -800>>), <<"MouthSmileLeft", -300>>>>
      [] e = "thinking" -> <<(<<"BrowInnerUp", 300>>), <<"EyeLookUpLeft", 800>>>>
      [] e = "listening" -> <<(<<"EyeBlinkLeft", 0>>), <<"BrowInnerUp", 200>>>>
      [] OTHER -> <<>>

\* the "Reset base values" sends of set_expression
BaseReset ==
    <<(<<"MouthOpen", 0>>), <<"EyeBlinkLeft", 0>>, <<"EyeBlinkRight", 0>>,
      <<"BrowInnerUp", 0>>, <<"MouthSmileLeft", 0>>>>

SetExpression(av, e) ==
    SendAll([av EXCEPT !.state.expression = e], BaseReset \o ExpressionValues(e))

StartTalking(av) ==
    [av EXCEPT !.state.is_talking = TRUE, !.starts = @ + 1]

StopTalking(av) ==
    SendParameter(
        [av EXCEPT !.state.is_talking = FALSE, !.stops = @ + 1,
                   !.falls = @ + (IF av.state.is_talking THEN 1 ELSE 0)],
        "MouthOpen", 0)

\* set_mouth_open(value)
SetMouthOpen(av, value) ==
    [SendParameter(av, "MouthOpen", value) EXCEPT !.state.mouth_open = value]

\* look_at(x, y): 0.5 + y * 0.5 to the four eye parameters
LookAt(av, x, y) ==
    [SendAll(av, <<(<<"EyeLookUpLeft", 500 + y \div 2>>),
                   <<"EyeLookDownLeft", 500 + y \div 2>>,
                   <<"EyeLookUpRight", 500 + y \div 2>>,
                   <<"EyeLookDownRight", 500 + y \div 2>>>>)
        EXCEPT !.state.eye_gaze_x = x, !.state.eye_gaze_y = y]

\* set_mouth_smile(value)
SetMouthSmile(av, value) ==
    [SendAll(av, <<(<<"MouthSmileLeft", value>>),
                   <<"MouthSmileRight", value>>>>)
        EXCEPT !.state.mouth_smile = value]

\* reset() leaving the eye-blink parameters as they are
ResetKeepsEyes(av) ==
    [SendAll(av, <<(<<"MouthOpen", 0>>), <<"BrowInnerUp", 0>>,
                   <<"MouthSmileLeft", 0>>, <<"EyeLookUpLeft", 500>>,
                   <<"EyeLookDownLeft", 500>>>>)
        EXCEPT !.state = DefaultState]

\* reset(): seven parameters are sent and state is a new AvatarState
Reset(av) ==
    [SendAll(av, <<(<<"MouthOpen", 0>>), <<"EyeBlinkLeft", 0>>,
                   <<"EyeBlinkRight", 0>>, <<"BrowInnerUp", 0>>,
                   <<"MouthSmileLeft", 0>>, <<"EyeLookUpLeft", 500>>,
                   <<"EyeLookDownLeft", 500>>>>)
        EXCEPT !.state = DefaultState]

\* Inochi2dController(): nothing sent yet; orphans counts the animation tasks
\* that were created, have not ended, and that animation_task does not refer
\* to any more
NewAvatar ==
    [state |-> DefaultState, emitted |-> <<>>, starts |-> 0, stops |-> 0,
     falls |-> 0, orphans |-> 0]

\* the avatar after Inochi2dController() and start(): set_expression(NEUTRAL)
StartedAvatar == SetExpression(NewAvatar, "neutral")

(***************************************************************************)
(* VMController: the handles and the state after connect.                  *)
(* qmp is "none" (no QMPClient object), "live" (connected) or "dead" (the  *)
(* QMPClient object whose connect raised: it stays in _qmp_client).        *)
(***************************************************************************)
\* VMController()
FreshVM == [state |-> "stopped", qmp |-> "none", vnc |-> "none"]

\* what the environment lets connect meet: the QMP socket answers or not, or
\* qemu.qmp is not installed and the VNC connection succeeds or not
ConnectEnvs == {"qmp_ok", "qmp_fail", "vnc_ok", "vnc_fail"}

\* VMController.connect
Connect(vm, env) ==
    CASE env = "qmp_ok" -> [vm EXCEPT !.qmp = "live", !.state = "running"]
      [] env = "qmp_fail" -> [vm EXCEPT !.qmp = "dead", !.state = "error"]
      [] env = "vnc_ok" -> [vm EXCEPT !.vnc = "live", !.state = "running"]
      [] OTHER -> [vm EXCEPT !.state = "error"]

\* how a click, type_text or press_key can end: a command on a live handle
\* returns or raises, on the dead QMP handle it raises, and without a handle
\* the method does nothing
VmOpOutcomes(vm) ==
    IF vm.qmp = "live" THEN {"ok", "raise"}
    ELSE IF vm.qmp = "dead" THEN {"raise"}
    ELSE IF vm.vnc = "live" THEN {"ok", "raise"}
    ELSE {"ok"}

\* how get_screenshot can end: "shot" (a VMScreenshot), "raised" (the capture
\* raised: caught, "Failed to capture screenshot", None), "nofile" (screendump
\* returned and the file is not there: None) or "noclient" (None)
ShotOutcomes(vm) ==
    IF vm.qmp = "live" THEN {"shot", "raised", "nofile"}
    ELSE IF vm.qmp = "dead" THEN {"raised"}
    ELSE IF vm.vnc = "live" THEN {"shot", "raised"}
    ELSE {"noclient"}

\* a command of the controller in state vm reaches the VM: execute on a
\* connected QMPClient, or a call on the VNC client when there is no QMP
\* handle; execute on a QMPClient that never connected raises at once
Transmits(vm) ==
    \/ vm.qmp = "live"
    \/ vm.qmp = "none" /\ vm.vnc = "live"

\* which of the two client libraries connect finds: qemu.qmp, or (its import
\* raising ImportError) vncdotool
LibOf(env) == IF env \in {"qmp_ok", "qmp_fail"} THEN "qmp" ELSE "vnc"

\* no get_screenshot yet.  shared: the files the VM writes are the files the
\* controller sees; n counts the calls and names the capture the n-th call
\* asks for; sec is int(time.time()) of the last call; files maps a path to
\* the capture that is in the file; result is what the last call returned
\* (0 for None), returned what the calls before it returned; leftover: a file
\* was at the path when the last call began; caught: its except branch ran
NoShots ==
    [shared |-> TRUE, n |-> 0, sec |-> 0, files |-> <<>>, result |-> 0,
     returned |-> {}, leftover |-> FALSE, caught |-> FALSE]

\* nothing has passed yet.  open counts the sessions that were connected and
\* not disconnected, tried holds the transports the last connect tried to
\* connect over, last what it met; errored: a command has raised on a session
\* since the last connect; late: a command has reached the VM after that;
\* stray: a command has reached the VM in state ERROR; click: the last click
\* sent over QMP, <<x, y, qx, qy>>; call: the command that was called last,
\* todo: the executes it has still to make, events: the input events it has
\* handed to the session, awaiting: an execute waits for its reply
FreshWire(lib) ==
    [lib |-> lib, connects |-> 0, open |-> 0, tried |-> {}, last |-> "",
     errored |-> FALSE, late |-> FALSE, stray |-> FALSE, click |-> <<>>,
     call |-> "", todo |-> <<>>, events |-> <<>>, awaiting |-> FALSE,
     shots |-> NoShots]

\* VMController.connect as the VM sees it
ConnectWire(w, env) ==
    [w EXCEPT !.connects = @ + 1,
              !.open = @ + (IF env \in {"qmp_ok", "vnc_ok"} THEN 1 ELSE 0),
              !.tried = {LibOf(env)},
              !.last = env,
              !.errored = FALSE]

\* a command (click, type_text, press_key, get_screenshot) that ended with
\* outcome o, as the VM sees it
AfterCommand(vm, w, o) ==
    [w EXCEPT !.late = @ \/ (w.errored /\ Transmits(vm)),
              !.stray = @ \/ (vm.state = "error" /\ Transmits(vm)),
              !.errored = @ \/ (Transmits(vm) /\ o \in {"raise", "raised"})]

(***************************************************************************)
(* State of one chat turn                                                  *)
(***************************************************************************)
VARIABLES
    pc,             \* where _send_message stands
    response_text,  \* response_text of _send_message
    streamed,       \* all text the model has sent in this turn
    pending,        \* what the model is still going to send
    tool_calls,     \* the list handed to _execute_tool_calls
    idx,            \* the tool call the for loop is at (from 1)
    speak,          \* speak_text: its words, the word it is at, its caller
    avatar,         \* Inochi2dController
    vm,             \* VMController
    working,        \* memory.working.messages, by role
    longterm,       \* what memory.remember has stored
    oplog,          \* starts and ends of the tool calls' operations
    failed,         \* the tool calls whose operation failed
    reports,        \* what the turn has written to the console
    ended,          \* how the stream ended: "", "done", "error", "keyerror", "eof"
    cut_in_tag,     \* a chunk has ended between the two tokens of a delimiter
    anim,           \* _animation_loop: where it stands, its t, the time since
                    \* last_blink_time (in sixtieths of a second)
    quiet,          \* what has happened since the last stop_talking
    wire,           \* what has passed between the VMController and the VM
    run             \* Orchestrator: running, chat_active, where main stands

vars ==
    <<pc, response_text, streamed, pending, tool_calls, idx, speak, avatar, vm,
      working, longterm, oplog, failed, reports, ended, cut_in_tag, anim,
      quiet, wire, run>>

\* _animation_loop at its first iteration: t = 0.0, last_blink_time = now
AnimStart == [pc |-> "top", t |-> 0, since |-> 0]

NotSpeaking == [words |-> <<>>, i |-> 0, ret |-> ""]

\* no animation task yet
NoAnim == [pc |-> "none", t |-> 0, since |-> 0]

\* Orchestrator() in main: not running, chat mode off, chat_input empty, no
\* last_screenshot; at is where main stands, autos counts the calls of
\* _autonomous_behavior that did something; typed is chat_input.strip(),
\* key is the key of the last KEYDOWN event handled and keys counts them,
\* shutdowns counts the calls of shutdown()
NewRun ==
    [running |-> FALSE, chat_active |-> FALSE, typed |-> FALSE, at |-> "init",
     shot |-> FALSE, autos |-> 0, chat_input |-> <<>>, key |-> "", keys |-> 0,
     shutdowns |-> 0]

\* Orchestrator() in main, with either client library installed and a
\* memory store that is empty or not
Init ==
    /\ pc = "boot"
    /\ response_text = <<>>
    /\ streamed = <<>>
    /\ pending = <<>>
    /\ tool_calls = <<>>
    /\ idx = 0
    /\ speak = NotSpeaking
    /\ avatar = NewAvatar
    /\ vm = FreshVM
    /\ wire \in {FreshWire(lib) : lib \in {"qmp", "vnc"}}
    /\ working = <<>>
    /\ longterm \in {<<>>, <<"earlier">>}
    /\ oplog = <<>>
    /\ failed = {}
    /\ reports = {}
    /\ ended = ""
    /\ cut_in_tag = FALSE
    /\ anim = NoAnim
    /\ quiet = "no"
    /\ run = NewRun

\* Initialize giving up when the VM cannot be reached
InitializeStrict ==
    /\ pc = "boot"
    /\ \E env \in {e \in ConnectEnvs : LibOf(e) = wire.lib} :
        /\ vm' = Connect(vm, env)
        /\ wire' = ConnectWire(wire, env)
        /\ run' = [run EXCEPT !.running = (vm'.state = "running"),
                              !.at = "loop"]
    /\ avatar' = SetExpression(StartedAvatar, "listening")
    /\ anim' = AnimStart
    /\ pc' = "ready"
    /\ UNCHANGED <<response_text, streamed, pending, tool_calls, idx, speak,
                   working, longterm, oplog, failed, reports, ended,
                   cut_in_tag, quiet>>

\* initialize(): vm.connect() (a failure is only printed), avatar.start(),
\* set_expression(LISTENING), running = True; main goes on to run()
Initialize ==
    /\ pc = "boot"
    /\ \E env \in {e \in ConnectEnvs : LibOf(e) = wire.lib} :
        /\ vm' = Connect(vm, env)
        /\ wire' = ConnectWire(wire, env)
    /\ avatar' = SetExpression(StartedAvatar, "listening")
    /\ anim' = AnimStart
    /\ run' = [run EXCEPT !.running = TRUE, !.at = "loop"]
    /\ pc' = "ready"
    /\ UNCHANGED <<response_text, streamed, pending, tool_calls, idx, speak,
                   working, longterm, oplog, failed, reports, ended,
                   cut_in_tag, quiet>>

\* _handle_events in the run loop: T is pressed (chat mode on, THINKING) and
\* a message is typed in
OpenChat ==
    /\ pc = "ready"
    /\ run.at = "loop"
    /\ run' = [run EXCEPT !.chat_active = TRUE, !.typed = TRUE,
                          !.chat_input = <<"a">>]
    /\ avatar' = SetExpression(avatar, "thinking")
    /\ pc' = "idle"
    /\ UNCHANGED <<response_text, streamed, pending, tool_calls, idx, speak, vm,
                   working, longterm, oplog, failed, reports, ended,
                   cut_in_tag, anim, quiet, wire>>

(***************************************************************************)
(* Inochi2dController.speak_text, one action per stretch between two       *)
(* sleeps.  speak.i counts the words from 0, as enumerate does.            *)
(***************************************************************************)
\* a token at which text.split() starts a word: the segments of a response are
\* separated by white space and a span is written without any
StartsWord(text, i) == i = 1 \/ text[i].k \in {"word", "<tool_"}

RECURSIVE WordsFrom(_, _)
\* the lengths of the words of text.split() from token i on: a plain word
\* has 4 letters, the text of a span more than 14 characters
WordsFrom(text, i) ==
    IF i > Len(text) THEN <<>>
    ELSE IF StartsWord(text, i)
         THEN <<IF text[i].k = "word" THEN 4 ELSE 32>> \o WordsFrom(text, i + 1)
         ELSE WordsFrom(text, i + 1)

\* [len(word) for word in text.split()]
WordsOf(text) == WordsFrom(text, 1)

\* min(0.3 + (len(word) / 20) * 0.5, 1.0)
PulseValue(len) ==
    IF 300 + 25 * len < 1000 THEN 300 + 25 * len ELSE 1000

\* what follows the tool call idx in the for loop of _execute_tool_calls
AfterCall(i) == IF i < Len(tool_calls) THEN "exec" ELSE "remember"

\* the for loop of speak_text at word i: the word's first send, or
\* stop_talking and the return to the caller (ret) after the last word
SpeakFrom(av, words, i, ret, log) ==
    IF i < Len(words)
    THEN /\ avatar' = SendParameter(av, "MouthOpen", PulseValue(words[i + 1]))
         /\ speak' = [words |-> words, i |-> i, ret |-> ret]
         /\ pc' = "sp_high"
         /\ oplog' = log
         /\ idx' = idx
    ELSE /\ avatar' = StopTalking(av)
         /\ speak' = NotSpeaking
         /\ pc' = IF ret = "call" THEN AfterCall(idx) ELSE "remember"
         /\ oplog' = IF ret = "call" THEN Append(log, <<"end", idx>>) ELSE log
         /\ idx' = IF ret = "call" THEN idx + 1 ELSE idx

\* after sleep(0.1 + len(word) * 0.02)
SpeakLow ==
    /\ pc = "sp_high"
    /\ avatar' = SendParameter(avatar, "MouthOpen", 100)
    /\ pc' = "sp_low"
    /\ UNCHANGED <<response_text, streamed, pending, tool_calls, idx, speak, vm,
                   working, longterm, oplog, failed, reports>>
    /\ UNCHANGED <<ended, cut_in_tag, anim, quiet, wire, run>>

\* after sleep(0.05), a word with i % 5 == 0: blink() up to its sleep
SpeakBlink ==
    /\ pc = "sp_low"
    /\ speak.i % 5 = 0
    /\ avatar' = SendAll(avatar, <<(<<"EyeBlinkLeft", 1000>>),
                                   <<"EyeBlinkRight", 1000>>>>)
    /\ pc' = "sp_blink"
    /\ UNCHANGED <<response_text, streamed, pending, tool_calls, idx, speak, vm,
                   working, longterm, oplog, failed, reports>>
    /\ UNCHANGED <<ended, cut_in_tag, anim, quiet, wire, run>>

\* after the sleep of blink(): the eyes open, then the next word
SpeakBlinkEnd ==
    /\ pc = "sp_blink"
    /\ SpeakFrom(SendAll(avatar, <<(<<"EyeBlinkLeft", 0>>),
                                   <<"EyeBlinkRight", 0>>>>),
                 speak.words, speak.i + 1, speak.ret, oplog)
    /\ UNCHANGED <<response_text, streamed, pending, tool_calls, vm, working,
                   longterm, failed, reports>>
    /\ UNCHANGED <<ended, cut_in_tag, anim, quiet, wire, run>>

\* after sleep(0.05), a word without a blink: the next word
SpeakNext ==
    /\ pc = "sp_low"
    /\ speak.i % 5 # 0
    /\ SpeakFrom(avatar, speak.words, speak.i + 1, speak.ret, oplog)
    /\ UNCHANGED <<response_text, streamed, pending, tool_calls, vm, working,
                   longterm, failed, reports>>
    /\ UNCHANGED <<ended, cut_in_tag, anim, quiet, wire, run>>

(***************************************************************************)
(* Orchestrator._send_message                                              *)
(***************************************************************************)
\* RETURN in chat mode with a non-blank chat_input: add_to_working("user")
SendMessage ==
    /\ pc = "idle"
    /\ run.at = "loop"
    /\ run.chat_active
    /\ run.typed
    /\ working' = Append(working, "user")
    /\ pc' = "ctx"
    /\ UNCHANGED <<response_text, streamed, pending, tool_calls, idx, speak,
                   avatar, vm, longterm, oplog, failed, reports>>
    /\ UNCHANGED <<ended, cut_in_tag, anim, quiet, wire, run>>

\* get_contextual_memory raises: the exception leaves _send_message
ContextRaises ==
    /\ pc = "ctx"
    /\ pc' = "crashed"
    /\ UNCHANGED <<response_text, streamed, pending, tool_calls, idx, speak,
                   avatar, vm, working, longterm, oplog, failed, reports>>
    /\ UNCHANGED <<ended, cut_in_tag, anim, quiet, wire, run>>

\* get_contextual_memory returns (non-empty when anything is stored);
\* messages is the working list itself, so insert(0, system) changes it;
\* start_talking; the model decides on its response
ContextReturns ==
    /\ pc = "ctx"
    /\ working' = IF longterm # <<>> THEN <<"system">> \o working ELSE working
    /\ avatar' = StartTalking(avatar)
    /\ pending' \in Texts(MaxSegs)
    /\ pc' = "stream"
    /\ UNCHANGED <<response_text, streamed, tool_calls, idx, speak, vm, longterm,
                   oplog, failed, reports>>
    /\ UNCHANGED <<ended, cut_in_tag, anim, quiet, wire, run>>

\* AccumulateChunk with = in the place of +=
AccumulateLast(text, chunk) == chunk

\* response_text += chunk["text"]
AccumulateChunk(text, chunk) == text \o chunk

\* if "<tool_call>" in response_text: set_expression(THINKING)
ThinkIfTag(av, text) ==
    IF HasOpenTag(text) THEN SetExpression(av, "thinking") ELSE av

\* the chunk that ended text stopped between the two tokens of a delimiter
SplitsTag(text, rest) ==
    /\ text # <<>>
    /\ rest # <<>>
    /\ text[Len(text)] \in {OpenHead, CloseHead}
    /\ Head(rest) = CallTail

\* StreamChunk dispatching as soon as a complete span has arrived
StreamChunkEager ==
    /\ pc = "stream"
    /\ \E k \in 0..Len(pending) :
        /\ response_text' = AccumulateChunk(response_text, SubSeq(pending, 1, k))
        /\ streamed' = streamed \o SubSeq(pending, 1, k)
        /\ pending' = SubSeq(pending, k + 1, Len(pending))
        /\ avatar' = ThinkIfTag(avatar, response_text')
        /\ cut_in_tag' = (cut_in_tag \/ SplitsTag(response_text', pending'))
    /\ tool_calls' = ExtractToolCalls(response_text')
    /\ idx' = IF tool_calls' # <<>> THEN 1 ELSE idx
    /\ pc' = IF tool_calls' # <<>> THEN "exec" ELSE pc
    /\ UNCHANGED <<speak, vm, working, longterm, oplog, failed, reports, ended>>
    /\ UNCHANGED <<anim, quiet, wire, run>>

\* a chunk with the next k tokens and done = False
StreamChunk ==
    /\ pc = "stream"
    /\ \E k \in 0..Len(pending) :
        /\ response_text' = AccumulateChunk(response_text, SubSeq(pending, 1, k))
        /\ streamed' = streamed \o SubSeq(pending, 1, k)
        /\ pending' = SubSeq(pending, k + 1, Len(pending))
        /\ avatar' = ThinkIfTag(avatar, response_text')
        /\ cut_in_tag' = (cut_in_tag \/ SplitsTag(response_text', pending'))
    /\ UNCHANGED <<pc, tool_calls, idx, speak, vm, working, longterm, oplog,
                   failed, reports, ended>>
    /\ UNCHANGED <<anim, quiet, wire, run>>

RECURSIVE Reversed(_)
Reversed(seq) ==
    IF seq = <<>> THEN <<>> ELSE Append(Reversed(Tail(seq)), Head(seq))

\* TurnToolCalls with each call put in front of the list
TurnToolCallsReversed(text) == Reversed(ExtractToolCalls(text))

\* _extract_tool_calls(response_text) as _send_message calls it
TurnToolCalls(text) == ExtractToolCalls(text)

\* the chunk with the rest of the response (which may be empty) and
\* done = True: stop_talking, the tool calls are extracted; without any,
\* HAPPY and speak_text(response_text)
StreamDone ==
    /\ pc = "stream"
    /\ response_text' = AccumulateChunk(response_text, pending)
    /\ streamed' = streamed \o pending
    /\ pending' = <<>>
    /\ tool_calls' = TurnToolCalls(response_text')
    /\ reports' = reports \cup
            {[kind |-> "parse_failed", ref |-> a] : a \in ParseWarnings(response_text')}
    /\ IF tool_calls' # <<>>
       THEN /\ avatar' = StopTalking(ThinkIfTag(avatar, response_text'))
            /\ idx' = 1
            /\ pc' = "exec"
            /\ UNCHANGED <<speak, oplog>>
       ELSE SpeakFrom(
                StartTalking(SetExpression(
                    StopTalking(ThinkIfTag(avatar, response_text')), "happy")),
                WordsOf(response_text'), 0, "turn", oplog)
    /\ UNCHANGED <<vm, working, longterm, failed>>
    /\ ended' = "done"
    /\ UNCHANGED <<cut_in_tag, anim, quiet, wire, run>>

\* a chunk {"error": e} with a non-empty e: stop_talking, SAD, break
StreamError ==
    /\ pc = "stream"
    /\ avatar' = SetExpression(StopTalking(avatar), "sad")
    /\ reports' = reports \cup {[kind |-> "ai_error", ref |-> 0]}
    /\ pending' = <<>>
    /\ pc' = "returned"
    /\ UNCHANGED <<response_text, streamed, tool_calls, idx, speak, vm, working,
                   longterm, oplog, failed>>
    /\ ended' = "error"
    /\ UNCHANGED <<cut_in_tag, anim, quiet, wire, run>>

\* a chunk {"error": ""} (str(e) of an exception without a message):
\* chunk.get("error") is false and chunk["text"] raises KeyError
StreamErrorEmpty ==
    /\ pc = "stream"
    /\ pending' = <<>>
    /\ pc' = "crashed"
    /\ UNCHANGED <<response_text, streamed, tool_calls, idx, speak, avatar, vm,
                   working, longterm, oplog, failed, reports>>
    /\ ended' = "keyerror"
    /\ UNCHANGED <<cut_in_tag, anim, quiet, wire, run>>

\* the stream ends and no chunk had done = True: the async for loop ends
StreamEnd ==
    /\ pc = "stream"
    /\ pending' = <<>>
    /\ pc' = "returned"
    /\ UNCHANGED <<response_text, streamed, tool_calls, idx, speak, avatar, vm,
                   working, longterm, oplog, failed, reports>>
    /\ ended' = "eof"
    /\ UNCHANGED <<cut_in_tag, anim, quiet, wire, run>>

\* memory.remember(response_text) returns; add_to_working("assistant")
RememberReturns ==
    /\ pc = "remember"
    /\ longterm' = Append(longterm, "response")
    /\ working' = Append(working, "assistant")
    /\ pc' = "returned"
    /\ UNCHANGED <<response_text, streamed, pending, tool_calls, idx, speak,
                   avatar, vm, oplog, failed, reports>>
    /\ UNCHANGED <<ended, cut_in_tag, anim, quiet, wire, run>>

\* memory.remember(response_text) raises: the exception leaves _send_message
RememberRaises ==
    /\ pc = "remember"
    /\ pc' = "crashed"
    /\ UNCHANGED <<response_text, streamed, pending, tool_calls, idx, speak,
                   avatar, vm, working, longterm, oplog, failed, reports>>
    /\ UNCHANGED <<ended, cut_in_tag, anim, quiet, wire, run>>

(***************************************************************************)
(* Orchestrator._execute_tool_calls: the for loop at tool_calls[idx].      *)
(* oplog gets <<"start", i>> when the loop takes up call i and             *)
(* <<"end", i>> when its try statement is left.                            *)
(***************************************************************************)
Call == tool_calls[idx]

AtCall == pc = "exec" /\ idx \in 1..Len(tool_calls)

\* the operations that wait for a collaborator (the VM or the memory)
WaitingTools ==
    {"vm_click", "vm_type", "vm_press_key", "vm_screenshot", "memory_store",
     "memory_recall"}

\* args[...] raises KeyError: the key is read from the empty dict
KeyMissing(c) == RequiredKey(c.name) # "" /\ c.args = "empty"

\* the values of "expression" the valid arguments stand for
ArgExpressions == {"happy", "surprised"}

\* the text of a valid avatar_speak call
ArgSpeech == <<Word, Word>>

\* CallFails with the try statement around the whole loop: the first error
\* ends the loop
CallFailsAborts(log) ==
    /\ reports' = reports \cup {[kind |-> "tool_call_failed", ref |-> idx]}
    /\ failed' = failed \cup {idx}
    /\ avatar' = SetExpression(avatar, "sad")
    /\ oplog' = Append(log, <<"end", idx>>)
    /\ idx' = idx + 1
    /\ pc' = "remember"

\* CallFails without the set_expression(SAD) of the handler
CallFailsQuiet(log) ==
    /\ reports' = reports \cup {[kind |-> "tool_call_failed", ref |-> idx]}
    /\ failed' = failed \cup {idx}
    /\ avatar' = avatar
    /\ oplog' = Append(log, <<"end", idx>>)
    /\ idx' = idx + 1
    /\ pc' = AfterCall(idx)

\* except Exception: "Tool call failed", set_expression(SAD); then the next call
CallFails(log) ==
    /\ reports' = reports \cup {[kind |-> "tool_call_failed", ref |-> idx]}
    /\ failed' = failed \cup {idx}
    /\ avatar' = SetExpression(avatar, "sad")
    /\ oplog' = Append(log, <<"end", idx>>)
    /\ idx' = idx + 1
    /\ pc' = AfterCall(idx)

\* CallReturns without the step to the next call
CallReturnsAgain(log) ==
    /\ oplog' = Append(log, <<"end", idx>>)
    /\ idx' = idx
    /\ pc' = "exec"

\* the try statement is left without an exception; then the next call
CallReturns(log) ==
    /\ oplog' = Append(log, <<"end", idx>>)
    /\ idx' = idx + 1
    /\ pc' = AfterCall(idx)

\* a name matching no branch of the if chain: nothing is done
CallUnknown ==
    /\ AtCall
    /\ Call.name \notin KnownTools
    /\ CallReturns(Append(oplog, <<"start", idx>>))
    /\ UNCHANGED <<response_text, streamed, pending, tool_calls, speak, avatar,
                   vm, working, longterm, failed, reports>>
    /\ UNCHANGED <<ended, cut_in_tag, anim, quiet, wire, run>>

\* args["x"], args["text"], ... raises KeyError before the operation is called
CallKeyError ==
    /\ AtCall
    /\ Call.name \in KnownTools
    /\ KeyMissing(Call)
    /\ CallFails(Append(oplog, <<"start", idx>>))
    /\ UNCHANGED <<response_text, streamed, pending, tool_calls, speak, vm,
                   working, longterm>>
    /\ UNCHANGED <<ended, cut_in_tag, anim, quiet, wire, run>>

\* avatar_expression: AvatarExpression(args["expression"]) raises ValueError,
\* or set_expression is called
CallAvatarExpression ==
    /\ AtCall
    /\ Call.name = "avatar_expression"
    /\ ~KeyMissing(Call)
    /\ \/ /\ Call.args = "invalid"
          /\ CallFails(Append(oplog, <<"start", idx>>))
       \/ /\ Call.args # "invalid"
          /\ \E e \in ArgExpressions : avatar' = SetExpression(avatar, e)
          /\ CallReturns(Append(oplog, <<"start", idx>>))
          /\ UNCHANGED <<failed, reports>>
    /\ UNCHANGED <<response_text, streamed, pending, tool_calls, speak, vm,
                   working, longterm>>
    /\ UNCHANGED <<ended, cut_in_tag, anim, quiet, wire, run>>

\* avatar_speak: speak_text(args["text"])
CallAvatarSpeak ==
    /\ AtCall
    /\ Call.name = "avatar_speak"
    /\ ~KeyMissing(Call)
    /\ SpeakFrom(StartTalking(avatar), WordsOf(ArgSpeech), 0, "call",
                 Append(oplog, <<"start", idx>>))
    /\ UNCHANGED <<response_text, streamed, pending, tool_calls, vm, working,
                   longterm, failed, reports>>
    /\ UNCHANGED <<ended, cut_in_tag, anim, quiet, wire, run>>

\* a VM or memory operation is called and waits for its collaborator
CallWaits ==
    /\ AtCall
    /\ Call.name \in WaitingTools
    /\ ~KeyMissing(Call)
    /\ oplog' = Append(oplog, <<"start", idx>>)
    /\ pc' = "op"
    /\ UNCHANGED <<response_text, streamed, pending, tool_calls, idx, speak,
                   avatar, vm, working, longterm, failed, reports>>
    /\ UNCHANGED <<ended, cut_in_tag, anim, quiet, wire, run>>

\* vm.click, vm.type_text or vm.press_key ends
VmOpEnds ==
    /\ pc = "op"
    /\ Call.name \in {"vm_click", "vm_type", "vm_press_key"}
    /\ \E o \in VmOpOutcomes(vm) :
        /\ wire' = AfterCommand(vm, wire, o)
        /\ \/ /\ o = "ok"
              /\ CallReturns(oplog)
              /\ UNCHANGED <<avatar, failed, reports>>
           \/ /\ o = "raise"
              /\ CallFails(oplog)
    /\ UNCHANGED <<response_text, streamed, pending, tool_calls, speak, vm,
                   working, longterm>>
    /\ UNCHANGED <<ended, cut_in_tag, anim, quiet, run>>

\* vm.get_screenshot ends, and _analyze_screenshot when there is a screenshot:
\* neither lets an exception out
ScreenshotEnds ==
    /\ pc = "op"
    /\ Call.name = "vm_screenshot"
    /\ \E o \in ShotOutcomes(vm) :
        /\ wire' = AfterCommand(vm, wire, o)
        /\ \/ /\ o = "shot"
              /\ \/ /\ longterm' = Append(longterm, "saw")
                    /\ UNCHANGED <<failed, reports>>
                 \/ /\ reports' = reports \cup
                           {[kind |-> "analysis_failed", ref |-> idx]}
                    /\ failed' = failed \cup {idx}
                    /\ UNCHANGED longterm
           \/ /\ o = "raised"
              /\ reports' = reports \cup
                    {[kind |-> "capture_failed", ref |-> idx]}
              /\ failed' = failed \cup {idx}
              /\ UNCHANGED longterm
           \/ /\ o \in {"nofile", "noclient"}
              /\ failed' = failed \cup {idx}
              /\ UNCHANGED <<longterm, reports>>
    /\ CallReturns(oplog)
    /\ UNCHANGED <<response_text, streamed, pending, tool_calls, speak, avatar,
                   vm, working>>
    /\ UNCHANGED <<ended, cut_in_tag, anim, quiet, run>>

\* memory.remember(args["content"]) ends
MemoryStoreEnds ==
    /\ pc = "op"
    /\ Call.name = "memory_store"
    /\ \/ /\ longterm' = Append(longterm, "stored")
          /\ CallReturns(oplog)
          /\ UNCHANGED <<avatar, failed, reports>>
       \/ /\ CallFails(oplog)
          /\ UNCHANGED longterm
    /\ UNCHANGED <<response_text, streamed, pending, tool_calls, speak, vm,
                   working>>
    /\ UNCHANGED <<ended, cut_in_tag, anim, quiet, wire, run>>

\* memory.recall(args["query"]) ends
MemoryRecallEnds ==
    /\ pc = "op"
    /\ Call.name = "memory_recall"
    /\ \/ /\ CallReturns(oplog)
          /\ UNCHANGED <<avatar, failed, reports>>
       \/ CallFails(oplog)
    /\ UNCHANGED <<response_text, streamed, pending, tool_calls, speak, vm,
                   working, longterm>>
    /\ UNCHANGED <<ended, cut_in_tag, anim, quiet, wire, run>>

\* the exception that left _send_message leaves _handle_events, _run_gui and
\* run, none of which has a try, and reaches main's except Exception:
\* "Fatal error" is printed and the run loop is not entered again
MainExcept ==
    /\ pc = "crashed"
    /\ run.at = "loop"
    /\ run' = [run EXCEPT !.at = "except"]
    /\ UNCHANGED <<pc, response_text, streamed, pending, tool_calls, idx, speak,
                   avatar, vm, working, longterm, oplog, failed, reports, ended,
                   cut_in_tag, anim, quiet, wire>>

Next ==
    \/ Initialize
    \/ OpenChat
    \/ SendMessage
    \/ ContextRaises
    \/ ContextReturns
    \/ StreamChunk
    \/ StreamDone
    \/ StreamError
    \/ StreamErrorEmpty
    \/ StreamEnd
    \/ CallUnknown
    \/ CallKeyError
    \/ CallAvatarExpression
    \/ CallAvatarSpeak
    \/ CallWaits
    \/ VmOpEnds
    \/ ScreenshotEnds
    \/ MemoryStoreEnds
    \/ MemoryRecallEnds
    \/ SpeakLow
    \/ SpeakBlink
    \/ SpeakBlinkEnd
    \/ SpeakNext
    \/ RememberReturns
    \/ RememberRaises

Spec == Init /\ [][Next]_vars

(***************************************************************************)
(* Inochi2dController on its own: the _animation_loop task and the calls   *)
(* other coroutines make between two of its steps.  Time is counted in     *)
(* sixtieths of a second; a sleep lasts at least as long as it was asked   *)
(* to.  In Spec the task is left out: it writes MouthOpen, the blink and   *)
(* the brow parameters and mouth_open and brow_raise, which no action of   *)
(* the turn reads.                                                         *)
(***************************************************************************)
\* blink_interval = 3.0
BlinkInterval == 180

\* asyncio.sleep(0.1) of blink()
BlinkHold == 6

\* asyncio.sleep(1 / 60)
FrameTime == 1

\* how long the sleep at the end of an iteration can take: as asked, or so
\* long that the next blink is due
SleepTimes == {FrameTime, BlinkInterval}

\* (math.sin(t * 15) + 1) / 2 * 0.8 for t = 0, 1/60, 2/60, ...
MouthWave == <<400, 499, 592, 673, 737, 780, 799, 794>>

\* math.sin(t * 0.5) * 0.1 for t = 0, 1/60, 2/60, ...
IdleBrow == <<0, 1, 2, 2, 3, 4, 5, 6>>

\* current_time - last_blink_time after d more sixtieths, as far as the
\* comparison with blink_interval can tell
Elapsed(since, d) ==
    IF since + d > BlinkInterval THEN BlinkInterval + 1 ELSE since + d

\* the sine wave giving way to an expression whose table sets MouthOpen
TalkingAnimationUnlessMouth(av, t) ==
    IF av.state.is_talking
       /\ \A k \in DOMAIN ExpressionValues(av.state.expression) :
             ExpressionValues(av.state.expression)[k][1] # "MouthOpen"
    THEN [SendParameter(av, "MouthOpen", MouthWave[t + 1])
            EXCEPT !.state.mouth_open = MouthWave[t + 1]]
    ELSE av

\* "Talking animation": the sine wave is sent and stored while is_talking
TalkingAnimation(av, t) ==
    IF av.state.is_talking
    THEN [SendParameter(av, "MouthOpen", MouthWave[t + 1])
            EXCEPT !.state.mouth_open = MouthWave[t + 1]]
    ELSE av

\* "Subtle idle animation"
IdleAnimation(av, t) ==
    [SendParameter(av, "BrowInnerUp", IdleBrow[t + 1])
        EXCEPT !.state.brow_raise = IdleBrow[t + 1]]

turnVars ==
    <<pc, response_text, streamed, pending, tool_calls, idx, speak, vm, working,
      longterm, oplog, failed, reports, ended, cut_in_tag, wire, run>>

\* one iteration of the while loop up to its next sleep: the sleep of blink()
\* when a blink is due, else the sleep that ends the iteration
AnimTick ==
    /\ anim.pc = "top"
    /\ anim.t < MaxTicks
    /\ IF anim.since > BlinkInterval
       THEN /\ avatar' = SendAll(TalkingAnimation(avatar, anim.t),
                                 <<(<<"EyeBlinkLeft", 1000>>),
                                   <<"EyeBlinkRight", 1000>>>>)
            /\ anim' = [anim EXCEPT !.pc = "blink"]
            /\ quiet' = IF quiet = "stopped" THEN "ticking" ELSE quiet
       ELSE /\ avatar' = IdleAnimation(TalkingAnimation(avatar, anim.t), anim.t)
            /\ \E d \in SleepTimes :
                anim' = [pc |-> "top", t |-> anim.t + 1,
                         since |-> Elapsed(anim.since, d)]
            /\ quiet' = IF quiet = "stopped" THEN "ticked" ELSE quiet
    /\ UNCHANGED turnVars

\* blink() goes on after its sleep; last_blink_time = current_time; the idle
\* animation and the sleep that ends the iteration
AnimBlinkEnd ==
    /\ anim.pc = "blink"
    /\ avatar' = IdleAnimation(
                    SendAll(avatar, <<(<<"EyeBlinkLeft", 0>>),
                                      <<"EyeBlinkRight", 0>>>>),
                    anim.t)
    /\ \E d \in SleepTimes :
        anim' = [pc |-> "top", t |-> anim.t + 1,
                 since |-> Elapsed(BlinkHold, d)]
    /\ quiet' = IF quiet = "ticking" THEN "ticked" ELSE quiet
    /\ UNCHANGED turnVars

\* a coroutine calls start_talking()
AvStartTalking ==
    /\ anim.pc # "stopped"
    /\ avatar.starts < MaxTalks
    /\ avatar' = StartTalking(avatar)
    /\ quiet' = "no"
    /\ UNCHANGED anim
    /\ UNCHANGED turnVars

\* a coroutine calls stop_talking()
AvStopTalking ==
    /\ anim.pc # "stopped"
    /\ avatar.stops < MaxTalks
    /\ avatar' = StopTalking(avatar)
    /\ quiet' = "stopped"
    /\ UNCHANGED anim
    /\ UNCHANGED turnVars

\* the values set_mouth_open is called with
MouthValues == {0, 500, 1000}

\* a coroutine calls set_mouth_open(value)
AvSetMouthOpen ==
    /\ anim.pc # "stopped"
    /\ \E value \in MouthValues : avatar' = SetMouthOpen(avatar, value)
    /\ quiet' = "no"
    /\ UNCHANGED anim
    /\ UNCHANGED turnVars

\* a coroutine calls set_expression(e)
AvSetExpression ==
    /\ anim.pc # "stopped"
    /\ \E e \in AvatarExpressions : avatar' = SetExpression(avatar, e)
    /\ quiet' = "no"
    /\ UNCHANGED anim
    /\ UNCHANGED turnVars

\* the directions look_at is called with
Gazes == {<<0, 0>>, <<1000, 1000>>}

\* a coroutine calls look_at(x, y)
AvLookAt ==
    /\ anim.pc # "stopped"
    /\ \E g \in Gazes : avatar' = LookAt(avatar, g[1], g[2])
    /\ UNCHANGED <<anim, quiet>>
    /\ UNCHANGED turnVars

\* the values set_mouth_smile is called with
SmileValues == {1000}

\* a coroutine calls set_mouth_smile(value)
AvSetMouthSmile ==
    /\ anim.pc # "stopped"
    /\ \E value \in SmileValues : avatar' = SetMouthSmile(avatar, value)
    /\ UNCHANGED <<anim, quiet>>
    /\ UNCHANGED turnVars

\* stop() up to its await: running = False and the animation task is
\* cancelled; the task leaves its loop at the sleep it stands at, before
\* anything else runs
AvStopCancel ==
    /\ anim.pc \in {"top", "blink"}
    /\ anim' = [anim EXCEPT !.pc = "cancelled"]
    /\ UNCHANGED <<avatar, quiet>>
    /\ UNCHANGED turnVars

\* stop() after the animation task has ended: reset(), and stop returns
AvStopReset ==
    /\ anim.pc = "cancelled"
    /\ avatar' = [Reset(avatar) EXCEPT !.starts = avatar.starts,
                                       !.stops = avatar.stops,
                                       !.falls = avatar.falls]
    /\ anim' = [anim EXCEPT !.pc = "stopped"]
    /\ UNCHANGED quiet
    /\ UNCHANGED turnVars

\* the controller after start(), no turn running
InitAvatar ==
    /\ pc = "idle"
    /\ response_text = <<>>
    /\ streamed = <<>>
    /\ pending = <<>>
    /\ tool_calls = <<>>
    /\ idx = 0
    /\ speak = NotSpeaking
    /\ avatar = StartedAvatar
    /\ vm = FreshVM
    /\ wire = FreshWire("qmp")
    /\ working = <<>>
    /\ longterm = <<>>
    /\ oplog = <<>>
    /\ failed = {}
    /\ reports = {}
    /\ ended = ""
    /\ cut_in_tag = FALSE
    /\ anim = AnimStart
    /\ quiet = "no"
    /\ run = NewRun

NextAvatar ==
    \/ AnimTick
    \/ AnimBlinkEnd
    \/ AvStartTalking
    \/ AvStopTalking
    \/ AvSetMouthOpen
    \/ AvSetExpression

SpecAvatar == InitAvatar /\ [][NextAvatar]_vars

\* the controller from start() to the return of stop(), with the calls that
\* send parameters besides the animation task's
NextAvatarStop ==
    \/ AnimTick
    \/ AnimBlinkEnd
    \/ AvSetExpression
    \/ AvLookAt
    \/ AvSetMouthSmile
    \/ AvStopCancel
    \/ AvStopReset

SpecAvatarStop == InitAvatar /\ [][NextAvatarStop]_vars

\* the sleep of blink() ends, and stop() goes on to reset() once the
\* cancelled task has ended
SpecAvatarStopLive ==
    SpecAvatarStop /\ WF_vars(AnimBlinkEnd) /\ WF_vars(AvStopReset)

(***************************************************************************)
(* start() and stop() of one Inochi2dController called in any order.       *)
(***************************************************************************)
\* start(): running = True, animation_task = create_task(_animation_loop()),
\* set_expression(NEUTRAL); a task that animation_task referred to is neither
\* cancelled nor awaited, and goes on while running is true
AvStart ==
    /\ anim.pc \in {"none", "stopped", "top", "blink"}
    /\ avatar.orphans < MaxOrphans
    /\ avatar' = SetExpression(
                    [avatar EXCEPT !.orphans =
                        IF anim.pc \in {"top", "blink"} THEN @ + 1 ELSE @],
                    "neutral")
    /\ anim' = AnimStart
    /\ UNCHANGED quiet
    /\ UNCHANGED turnVars

\* an iteration of the loop of a task that animation_task does not refer
\* to, at some t of its own, while running is true
OrphanTick ==
    /\ avatar.orphans > 0
    /\ anim.pc \in {"top", "blink"}
    /\ \E t \in 0..(MaxTicks - 1) :
          avatar' = IdleAnimation(TalkingAnimation(avatar, t), t)
    /\ UNCHANGED <<anim, quiet>>
    /\ UNCHANGED turnVars

\* such a task comes back from its sleep after stop() has set running =
\* False: the while test ends it
OrphanEnds ==
    /\ avatar.orphans > 0
    /\ anim.pc \in {"cancelled", "stopped"}
    /\ avatar' = [avatar EXCEPT !.orphans = @ - 1]
    /\ UNCHANGED <<anim, quiet>>
    /\ UNCHANGED turnVars

\* Inochi2dController(), no turn running
InitStart ==
    /\ pc = "idle"
    /\ response_text = <<>>
    /\ streamed = <<>>
    /\ pending = <<>>
    /\ tool_calls = <<>>
    /\ idx = 0
    /\ speak = NotSpeaking
    /\ avatar = NewAvatar
    /\ vm = FreshVM
    /\ wire = FreshWire("qmp")
    /\ working = <<>>
    /\ longterm = <<>>
    /\ oplog = <<>>
    /\ failed = {}
    /\ reports = {}
    /\ ended = ""
    /\ cut_in_tag = FALSE
    /\ anim = NoAnim
    /\ quiet = "no"
    /\ run = NewRun

NextStart ==
    \/ AvStart
    \/ AnimTick
    \/ AnimBlinkEnd
    \/ AvStopCancel
    \/ AvStopReset
    \/ OrphanTick
    \/ OrphanEnds

SpecStart == InitStart /\ [][NextStart]_vars

(***************************************************************************)
(* speak_text next to the animation task: the call _send_message makes for *)
(* a response without tool calls, and the iterations of _animation_loop    *)
(* that run during its sleeps.                                             *)
(***************************************************************************)
\* the word lengths of the texts spoken: one word, and two words of which
\* the second is long enough for the pulse to reach 1.0
SpeakWords == {<<4>>, <<4, 32>>}

\* speak_text(text) is called: start_talking, then the first word's pulse
AvSpeakText ==
    /\ pc = "idle"
    /\ anim.pc # "stopped"
    /\ \E words \in SpeakWords :
          SpeakFrom(StartTalking(avatar), words, 0, "turn", oplog)
    /\ UNCHANGED <<response_text, streamed, pending, tool_calls, vm, working,
                   longterm, failed, reports>>
    /\ UNCHANGED <<ended, cut_in_tag, anim, quiet, wire, run>>

NextSpeak ==
    \/ AvSpeakText
    \/ SpeakLow
    \/ SpeakBlink
    \/ SpeakBlinkEnd
    \/ SpeakNext
    \/ AnimTick
    \/ AnimBlinkEnd

SpecSpeak == InitAvatar /\ [][NextSpeak]_vars

(***************************************************************************)
(* VMController on its own: connect, disconnect and the commands, called   *)
(* one after the other.                                                    *)
(***************************************************************************)
\* config.vm_width and config.vm_height of the default "1920x1080"
VmWidth == 1920

VmHeight == 1080

\* the largest value of an absolute axis
AxisMax == 32767

\* int((v / size) * 32767): the quotient is no integer unless v is a
\* multiple of size (32767 has no factor in common with 1920 or 1080), so
\* int() of the floating-point product is the exact one cut towards zero
QAxis(v, size) ==
    IF v >= 0 THEN (v * AxisMax) \div size
    ELSE 0 - (((0 - v) * AxisMax) \div size)

\* the pixel coordinates click is called with
ClickXs == {0, 10, 960, 1919}

ClickYs == {0, 20, 540, 1079}

\* how disconnect can end: the disconnect of a client it holds returns or
\* raises
DisconnectOutcomes(ctl) ==
    IF ctl.qmp # "none" \/ ctl.vnc # "none" THEN {"ok", "raise"} ELSE {"ok"}

\* the sessions the handles of the controller ctl stand for
LiveHandles(ctl) ==
    (IF ctl.qmp = "live" THEN 1 ELSE 0) + (IF ctl.vnc = "live" THEN 1 ELSE 0)

vmOther ==
    <<pc, response_text, streamed, pending, tool_calls, idx, speak, avatar,
      working, longterm, oplog, failed, reports, ended, cut_in_tag, anim,
      quiet, run>>

\* connect()
VmConnect ==
    /\ wire.connects < MaxConnects
    /\ \E env \in {e \in ConnectEnvs : LibOf(e) = wire.lib} :
        /\ vm' = Connect(vm, env)
        /\ wire' = ConnectWire(wire, env)
    /\ UNCHANGED vmOther

\* disconnect(): the handles it holds are disconnected and dropped, state is
\* STOPPED; when a client's disconnect raises, nothing has been assigned
VmDisconnect ==
    /\ \E o \in DisconnectOutcomes(vm) :
        \/ /\ o = "ok"
           /\ vm' = [state |-> "stopped", qmp |-> "none", vnc |-> "none"]
           /\ wire' = [wire EXCEPT !.open = @ - LiveHandles(vm)]
        \/ /\ o = "raise"
           /\ UNCHANGED <<vm, wire>>
    /\ UNCHANGED vmOther

\* click(x, y)
VmClick ==
    /\ \E x \in ClickXs : \E y \in ClickYs : \E o \in VmOpOutcomes(vm) :
        wire' = [AfterCommand(vm, wire, o) EXCEPT !.click =
                    IF vm.qmp = "live"
                    THEN <<x, y, QAxis(x, VmWidth), QAxis(y, VmHeight)>>
                    ELSE @]
    /\ UNCHANGED vm
    /\ UNCHANGED vmOther

\* press_key(key)
VmPressKey ==
    /\ \E o \in VmOpOutcomes(vm) : wire' = AfterCommand(vm, wire, o)
    /\ UNCHANGED vm
    /\ UNCHANGED vmOther

\* get_screenshot()
VmGetScreenshot ==
    /\ \E o \in ShotOutcomes(vm) : wire' = AfterCommand(vm, wire, o)
    /\ UNCHANGED vm
    /\ UNCHANGED vmOther

\* VMController(), with either client library installed
InitVM ==
    /\ pc = "idle"
    /\ response_text = <<>>
    /\ streamed = <<>>
    /\ pending = <<>>
    /\ tool_calls = <<>>
    /\ idx = 0
    /\ speak = NotSpeaking
    /\ avatar = StartedAvatar
    /\ vm = FreshVM
    /\ wire \in {FreshWire(lib) : lib \in {"qmp", "vnc"}}
    /\ working = <<>>
    /\ longterm = <<>>
    /\ oplog = <<>>
    /\ failed = {}
    /\ reports = {}
    /\ ended = ""
    /\ cut_in_tag = FALSE
    /\ anim = AnimStart
    /\ quiet = "no"
    /\ run = NewRun

NextVM ==
    \/ VmConnect
    \/ VmDisconnect
    \/ VmClick
    \/ VmPressKey
    \/ VmGetScreenshot

SpecVM == InitVM /\ [][NextVM]_vars

\* pause(), resume(), shutdown() and reset() of VMController and the state
\* each one assigns at its end
PowerOps == {"pause", "resume", "shutdown", "reset"}

PowerState(op) ==
    CASE op = "pause" -> "paused"
      [] op = "shutdown" -> "stopped"
      [] OTHER -> "running"

\* how the execute of a power operation can end: with a QMP handle the
\* command returns or raises (on the dead handle it raises), without one
\* nothing is sent
PowerOutcomes(ctl) ==
    IF ctl.qmp = "live" THEN {"ok", "raise"}
    ELSE IF ctl.qmp = "dead" THEN {"raise"}
    ELSE {"ok"}

\* pause() / resume() / shutdown() / reset(): if a QMP handle is held the
\* command is executed, and an exception of it leaves the method before the
\* state is assigned; the handles are not touched
VmPower ==
    /\ \E op \in PowerOps : \E o \in PowerOutcomes(vm) :
        /\ vm' = IF o = "ok" THEN [vm EXCEPT !.state = PowerState(op)] ELSE vm
        /\ wire' = IF vm.qmp # "none" THEN AfterCommand(vm, wire, o) ELSE wire
    /\ UNCHANGED vmOther

NextPower ==
    \/ NextVM
    \/ VmPower

SpecPower == InitVM /\ [][NextPower]_vars

(***************************************************************************)
(* get_screenshot with the files it reads.  A path is a number: the second *)
(* s stands for /tmp/vm_screenshot_<s>.png, -1 for /tmp/vm_screenshot.png. *)
(***************************************************************************)
\* the file the call works on: named after the second over QMP, fixed over
\* VNC
ShotPath(ctl, sec) == IF ctl.qmp # "none" THEN sec ELSE 0 - 1

\* the method reading the file whether or not the capture command raised
GoesOnToReadAlways(cmd) == TRUE

\* the statements after the capture command run only if it returned: its
\* exception goes to except Exception
GoesOnToRead(cmd) == cmd = "ok"

\* get_screenshot() of the controller ctl, e holding what the call meets:
\* tick (the second has changed since the last call), cmd (screendump or
\* captureScreen returns or raises), read and remove (open/read and
\* os.remove return or raise)
GetScreenshot(ctl, sh, e) ==
    LET sec == sh.sec + e.tick
        n == sh.n + 1
        path == ShotPath(ctl, sec)
        overQmp == ctl.qmp # "none"
        cmd == IF ctl.qmp = "dead" THEN "raise" ELSE e.cmd
        written ==
            IF cmd = "ok" /\ (~overQmp \/ sh.shared)
            THEN [q \in DOMAIN sh.files \cup {path} |->
                      IF q = path THEN n ELSE sh.files[q]]
            ELSE sh.files
        base == [sh EXCEPT !.n = n, !.sec = sec,
                           !.returned = IF sh.result # 0
                                        THEN @ \cup {sh.result} ELSE @,
                           !.leftover = path \in DOMAIN sh.files,
                           !.files = written,
                           !.result = 0,
                           !.caught = FALSE]
    IN  IF ~overQmp /\ ctl.vnc # "live" THEN base
        ELSE IF ~GoesOnToRead(cmd) THEN [base EXCEPT !.caught = TRUE]
        ELSE IF path \notin DOMAIN written
             THEN [base EXCEPT !.caught = ~overQmp]
        ELSE IF e.read = "raise" THEN [base EXCEPT !.caught = TRUE]
        ELSE IF overQmp /\ e.remove = "raise"
             THEN [base EXCEPT !.caught = TRUE]
        ELSE [base EXCEPT
                 !.result = written[path],
                 !.files = IF overQmp
                           THEN [q \in DOMAIN written \ {path} |-> written[q]]
                           ELSE written]

\* what a call of get_screenshot can meet
ShotEnvs ==
    [tick : {0, 1}, cmd : {"ok", "raise"}, read : {"ok", "raise"},
     remove : {"ok", "raise"}]

\* get_screenshot()
VmCapture ==
    /\ wire.shots.n < MaxShots
    /\ \E e \in ShotEnvs :
        wire' = [AfterCommand(vm, wire,
                              IF e.cmd = "ok" /\ vm.qmp # "dead"
                              THEN "ok" ELSE "raised")
                    EXCEPT !.shots = GetScreenshot(vm, wire.shots, e)]
    /\ UNCHANGED vm
    /\ UNCHANGED vmOther

\* VMController(), with either client library installed, the VM writing its
\* files where the controller sees them or elsewhere
InitShot ==
    /\ pc = "idle"
    /\ response_text = <<>>
    /\ streamed = <<>>
    /\ pending = <<>>
    /\ tool_calls = <<>>
    /\ idx = 0
    /\ speak = NotSpeaking
    /\ avatar = StartedAvatar
    /\ vm = FreshVM
    /\ wire \in {[FreshWire(lib) EXCEPT !.shots.shared = b] :
                    lib \in {"qmp", "vnc"}, b \in BOOLEAN}
    /\ working = <<>>
    /\ longterm = <<>>
    /\ oplog = <<>>
    /\ failed = {}
    /\ reports = {}
    /\ ended = ""
    /\ cut_in_tag = FALSE
    /\ anim = AnimStart
    /\ quiet = "no"
    /\ run = NewRun

NextShot ==
    \/ VmConnect
    \/ VmDisconnect
    \/ VmCapture

SpecShot == InitShot /\ [][NextShot]_vars

(***************************************************************************)
(* The commands of VMController on a connected QMP session, execute by     *)
(* execute.  An execute hands one input-send-event (or screendump) to the  *)
(* session and awaits the reply; the peer answers with a return or an      *)
(* error, or does not answer.  ch is the index in the text of type_text of *)
(* the character an execute belongs to, 0 in the other commands.           *)
(***************************************************************************)
\* {"type": "abs", "data": {"axis": axis, "value": value}}
AbsEvent(axis, value) ==
    [type |-> "abs", what |-> axis, value |-> value, down |-> FALSE]

\* {"type": "btn", "data": {"down": down, "button": "left"}}
BtnEvent(down) == [type |-> "btn", what |-> "left", value |-> 0, down |-> down]

\* {"type": "key", "data": {"down": down, "key": {"type": "qcode", "data": q}}}
KeyEvent(q, down) == [type |-> "key", what |-> q, value |-> 0, down |-> down]

\* execute(cmd, {"events": events}) made for character ch
Execute(cmd, ch, events) == [cmd |-> cmd, ch |-> ch, events |-> events]

\* the two executes of click
ClickExecutes(x, y) ==
    <<Execute("input-send-event", 0,
              <<AbsEvent("x", QAxis(x, VmWidth)),
                AbsEvent("y", QAxis(y, VmHeight)), BtnEvent(TRUE)>>),
      Execute("input-send-event", 0, <<BtnEvent(FALSE)>>)>>

\* the execute of move_mouse
MoveExecutes(x, y) ==
    <<Execute("input-send-event", 0,
              <<AbsEvent("x", QAxis(x, VmWidth)),
                AbsEvent("y", QAxis(y, VmHeight))>>)>>

\* key_map.get(char.lower(), char).split("-"): the characters typed in the
\* checked runs are a letter, a capital, two shifted signs, the minus sign and
\* a character the map does not hold
KeyParts(char) ==
    CASE char = "a" -> <<"a">>
      [] char = "A" -> <<"a">>
      [] char = "!" -> <<"shift", "1">>
      [] char = "_" -> <<"shift", "minus">>
      [] char = "-" -> <<"minus">>
      [] OTHER -> <<char>>

\* one execute per part with the key going down (up)
KeyDowns(parts, ch) ==
    [k \in DOMAIN parts |->
        Execute("input-send-event", ch, <<KeyEvent(parts[k], TRUE)>>)]

KeyUps(parts, ch) ==
    [k \in DOMAIN parts |->
        Execute("input-send-event", ch, <<KeyEvent(parts[k], FALSE)>>)]

\* reversed(parts)
ReversedParts(parts) == [k \in DOMAIN parts |-> parts[Len(parts) + 1 - k]]

\* _send_key releasing the parts in the order it pressed them
SendKeyExecutesInOrder(char, ch) ==
    KeyDowns(KeyParts(char), ch) \o KeyUps(KeyParts(char), ch)

\* _send_key(char): the parts go down in order and up in reverse order; a key
\* without "-" goes down and up
SendKeyExecutes(char, ch) ==
    KeyDowns(KeyParts(char), ch) \o KeyUps(ReversedParts(KeyParts(char)), ch)

RECURSIVE TypeFrom(_, _)
\* the for loop of type_text from character ch on
TypeFrom(text, ch) ==
    IF ch > Len(text) THEN <<>>
    ELSE SendKeyExecutes(text[ch], ch) \o TypeFrom(text, ch + 1)

\* type_text(text)
TypeTextExecutes(text) == TypeFrom(text, 1)

\* press_key(key): the key as it is given goes down and up
PressKeyExecutes(key) ==
    <<Execute("input-send-event", 0, <<KeyEvent(key, TRUE)>>),
      Execute("input-send-event", 0, <<KeyEvent(key, FALSE)>>)>>

\* get_screenshot(): one screendump
ScreenshotExecutes == <<Execute("screendump", 0, <<>>)>>

\* the coordinates a vm_click tool call passes: args["x"] and args["y"] are
\* what the model wrote
InputXs == {0, 960, 1919, 2500}

InputYs == {0 - 1, 540, 1079}

\* the texts of vm_type
TypedTexts == {<<"a">>, <<"A", "!">>, <<"_", "-">>, <<"!", "a", "x">>}

\* the keys of vm_press_key
PressedKeys == {"ret", "ctrl-c"}

inputOther ==
    <<pc, response_text, streamed, pending, tool_calls, idx, speak, avatar, vm,
      working, longterm, oplog, failed, reports, ended, cut_in_tag, anim,
      quiet, run>>

\* no command is running
NoCommand == wire.todo = <<>> /\ ~wire.awaiting

\* a command has been called and has these executes to make
Begun(w, call, executes) ==
    [w EXCEPT !.call = call, !.todo = executes, !.events = <<>>]

\* click(x, y) is called with a QMPClient in _qmp_client
InClick ==
    /\ NoCommand
    /\ vm.qmp # "none"
    /\ \E x \in InputXs : \E y \in InputYs :
          wire' = Begun(wire, "click", ClickExecutes(x, y))
    /\ UNCHANGED inputOther

\* move_mouse(x, y) is called
InMoveMouse ==
    /\ NoCommand
    /\ vm.qmp # "none"
    /\ \E x \in InputXs : \E y \in InputYs :
          wire' = Begun(wire, "move_mouse", MoveExecutes(x, y))
    /\ UNCHANGED inputOther

\* type_text(text) is called
InTypeText ==
    /\ NoCommand
    /\ vm.qmp # "none"
    /\ \E text \in TypedTexts :
          wire' = Begun(wire, "type_text", TypeTextExecutes(text))
    /\ UNCHANGED inputOther

\* press_key(key) is called
InPressKey ==
    /\ NoCommand
    /\ vm.qmp # "none"
    /\ \E key \in PressedKeys :
          wire' = Begun(wire, "press_key", PressKeyExecutes(key))
    /\ UNCHANGED inputOther

\* get_screenshot() is called
InScreenshot ==
    /\ NoCommand
    /\ vm.qmp # "none"
    /\ wire' = Begun(wire, "get_screenshot", ScreenshotExecutes)
    /\ UNCHANGED inputOther

\* await self._qmp_client.execute(...): the request goes to the session and
\* the command waits
ExecSend ==
    /\ wire.todo # <<>>
    /\ ~wire.awaiting
    /\ wire' = [wire EXCEPT
                  !.awaiting = TRUE,
                  !.events = @ \o [k \in DOMAIN Head(wire.todo).events |->
                                      [ch |-> Head(wire.todo).ch,
                                       ev |-> Head(wire.todo).events[k]]]]
    /\ UNCHANGED inputOther

\* the peer's reply arrives: execute returns and the command goes on, or it
\* raises and the exception ends the command (get_screenshot catches it,
\* the other commands let it pass)
PeerReplies ==
    /\ wire.awaiting
    /\ \E o \in {"ok", "raise"} :
        wire' = [AfterCommand(vm, wire, o) EXCEPT
                    !.awaiting = FALSE,
                    !.todo = IF o = "ok" THEN Tail(wire.todo) ELSE <<>>]
    /\ UNCHANGED inputOther

\* VMController after a connect that succeeded over QMP
InitInput ==
    /\ pc = "idle"
    /\ response_text = <<>>
    /\ streamed = <<>>
    /\ pending = <<>>
    /\ tool_calls = <<>>
    /\ idx = 0
    /\ speak = NotSpeaking
    /\ avatar = StartedAvatar
    /\ vm = Connect(FreshVM, "qmp_ok")
    /\ wire = ConnectWire(FreshWire("qmp"), "qmp_ok")
    /\ working = <<>>
    /\ longterm = <<>>
    /\ oplog = <<>>
    /\ failed = {}
    /\ reports = {}
    /\ ended = ""
    /\ cut_in_tag = FALSE
    /\ anim = AnimStart
    /\ quiet = "no"
    /\ run = NewRun

NextInput ==
    \/ InClick
    \/ InMoveMouse
    \/ InTypeText
    \/ InPressKey
    \/ InScreenshot
    \/ ExecSend
    \/ PeerReplies

SpecInput == InitInput /\ [][NextInput]_vars

\* the event loop runs a coroutine that can go on; nothing makes the peer
\* answer
SpecInputLive == SpecInput /\ WF_vars(ExecSend)

(***************************************************************************)
(* main: initialize, the run loop, shutdown.  The user quits, or a chat     *)
(* turn is left by the exception of get_contextual_memory; the animation   *)
(* task runs between the steps.                                            *)
(***************************************************************************)
\* _handle_events: pygame.QUIT, or ESC: running = False
EvQuit ==
    /\ run.at = "loop"
    /\ run.running
    /\ pc \in {"ready", "idle"}
    /\ run' = [run EXCEPT !.running = FALSE]
    /\ UNCHANGED <<pc, response_text, streamed, pending, tool_calls, idx, speak,
                   avatar, vm, working, longterm, oplog, failed, reports, ended,
                   cut_in_tag, anim, quiet, wire>>

\* _run_gui: the screenshot interval has passed, last_screenshot =
\* get_screenshot()
LoopCapture ==
    /\ run.at = "loop"
    /\ run.running
    /\ pc \in {"ready", "idle"}
    /\ VmGetScreenshot

\* the while of _run_gui ends, shutdown() is called: avatar.stop() sets
\* running = False and cancels the animation task, then awaits it
ShutdownStop ==
    /\ run.at = "loop"
    /\ ~run.running
    /\ pc \in {"ready", "idle", "returned"}
    /\ anim' = [anim EXCEPT !.pc = "cancelled"]
    /\ run' = [run EXCEPT !.at = "stop", !.shutdowns = @ + 1]
    /\ UNCHANGED <<pc, response_text, streamed, pending, tool_calls, idx, speak,
                   avatar, vm, working, longterm, oplog, failed, reports, ended,
                   cut_in_tag, quiet, wire>>

\* main's finally after "Fatal error": running is still True, so shutdown()
\* is called here
FinallyShutdownStop ==
    /\ run.at = "except"
    /\ run.running
    /\ anim' = [anim EXCEPT !.pc = "cancelled"]
    /\ run' = [run EXCEPT !.at = "stop", !.shutdowns = @ + 1]
    /\ UNCHANGED <<pc, response_text, streamed, pending, tool_calls, idx, speak,
                   avatar, vm, working, longterm, oplog, failed, reports, ended,
                   cut_in_tag, quiet, wire>>

\* avatar.stop() going on to the VM without the await and without reset()
ShutdownAwaitedNoWait ==
    /\ run.at = "stop"
    /\ run' = [run EXCEPT !.at = "vm"]
    /\ UNCHANGED <<pc, response_text, streamed, pending, tool_calls, idx, speak,
                   avatar, anim, vm, working, longterm, oplog, failed, reports,
                   ended, cut_in_tag, quiet, wire>>

\* the await of avatar.stop() returns, the animation task has ended; reset();
\* shutdown goes on to vm.disconnect()
ShutdownAwaited ==
    /\ run.at = "stop"
    /\ avatar' = Reset(avatar)
    /\ anim' = [anim EXCEPT !.pc = "stopped"]
    /\ run' = [run EXCEPT !.at = "vm"]
    /\ UNCHANGED <<pc, response_text, streamed, pending, tool_calls, idx, speak,
                   vm, working, longterm, oplog, failed, reports, ended,
                   cut_in_tag, quiet, wire>>

\* vm.disconnect() in shutdown: it returns with the handles dropped and the
\* state STOPPED, or a client's disconnect raises and shutdown is left
ShutdownDisconnect ==
    /\ run.at = "vm"
    /\ \E o \in DisconnectOutcomes(vm) :
        \/ /\ o = "ok"
           /\ vm' = [state |-> "stopped", qmp |-> "none", vnc |-> "none"]
           /\ wire' = [wire EXCEPT !.open = @ - LiveHandles(vm)]
           /\ run' = [run EXCEPT !.at = "close"]
        \/ /\ o = "raise"
           /\ UNCHANGED <<vm, wire>>
           /\ run' = [run EXCEPT !.at = "raised"]
    /\ UNCHANGED <<pc, response_text, streamed, pending, tool_calls, idx, speak,
                   avatar, working, longterm, oplog, failed, reports, ended,
                   cut_in_tag, anim, quiet>>

\* memory.close(), agent.close(), pygame.quit(): shutdown returns
ShutdownClose ==
    /\ run.at = "close"
    /\ run' = [run EXCEPT !.at = "down"]
    /\ UNCHANGED <<pc, response_text, streamed, pending, tool_calls, idx, speak,
                   avatar, vm, working, longterm, oplog, failed, reports, ended,
                   cut_in_tag, anim, quiet, wire>>

\* main returns: after the shutdown() at the end of _run_gui has returned or
\* raised, or after "Fatal error" with running False, the finally of main
\* finds nothing to do; a shutdown() called in the finally has returned or
\* raised
MainReturns ==
    /\ \/ run.at \in {"down", "raised"}
       \/ run.at = "except" /\ ~run.running
    /\ run' = [run EXCEPT !.at = "exit"]
    /\ UNCHANGED <<pc, response_text, streamed, pending, tool_calls, idx, speak,
                   avatar, vm, working, longterm, oplog, failed, reports, ended,
                   cut_in_tag, anim, quiet, wire>>

NextRun ==
    \/ Initialize
    \/ OpenChat
    \/ SendMessage
    \/ ContextRaises
    \/ MainExcept
    \/ EvQuit
    \/ LoopCapture
    \/ AnimTick
    \/ AnimBlinkEnd
    \/ ShutdownStop
    \/ FinallyShutdownStop
    \/ ShutdownAwaited
    \/ ShutdownDisconnect
    \/ ShutdownClose
    \/ MainReturns

SpecRun == Init /\ [][NextRun]_vars

(***************************************************************************)
(* The run loop around one chat turn: _run_gui calls _handle_events, the   *)
(* screen capture and _autonomous_behavior one after the other, and        *)
(* _handle_events awaits _send_message, so the loop stands still from the  *)
(* RETURN key until the turn has returned.                                 *)
(***************************************************************************)
\* _send_message has been called and has not returned
InTurn ==
    pc \in {"ctx", "stream", "exec", "op", "sp_high", "sp_low", "sp_blink",
            "remember"}

\* _run_gui stands between two of its awaits, _handle_events has returned
BetweenSteps ==
    /\ run.at = "loop"
    /\ run.running
    /\ pc \in {"ready", "idle", "returned"}

\* the capture made by a task of its own, whatever the loop is doing
CaptureStartsOwnTask ==
    /\ run.at = "loop"
    /\ run.running
    /\ run' = [run EXCEPT !.at = "capture"]
    /\ UNCHANGED <<pc, response_text, streamed, pending, tool_calls, idx, speak,
                   avatar, vm, working, longterm, oplog, failed, reports, ended,
                   cut_in_tag, anim, quiet, wire>>

\* the screenshot interval has passed: get_screenshot() is called and awaited
CaptureStarts ==
    /\ BetweenSteps
    /\ run' = [run EXCEPT !.at = "capture"]
    /\ UNCHANGED <<pc, response_text, streamed, pending, tool_calls, idx, speak,
                   avatar, vm, working, longterm, oplog, failed, reports, ended,
                   cut_in_tag, anim, quiet, wire>>

\* get_screenshot() returns a VMScreenshot or None: last_screenshot is set
CaptureEnds ==
    /\ run.at = "capture"
    /\ \E o \in ShotOutcomes(vm) :
        /\ wire' = AfterCommand(vm, wire, o)
        /\ run' = [run EXCEPT !.at = "loop", !.shot = (o = "shot")]
    /\ UNCHANGED <<pc, response_text, streamed, pending, tool_calls, idx, speak,
                   avatar, vm, working, longterm, oplog, failed, reports, ended,
                   cut_in_tag, anim, quiet>>

\* what _autonomous_behavior does once it has not returned at chat_active:
\* with analyse, _analyze_screenshot (remember "Saw: ..." unless the analysis
\* or the memory raises, which is caught) and THINKING; with reset, LISTENING
AutonomousActs(analyse, reset, remembered) ==
    /\ analyse => vm.state = "running" /\ run.shot
    /\ analyse \/ reset
    /\ run.autos < MaxAutos
    /\ longterm' = IF analyse /\ remembered
                   THEN Append(longterm, "saw") ELSE longterm
    /\ avatar' =
        IF reset
        THEN SetExpression(
                 IF analyse THEN SetExpression(avatar, "thinking") ELSE avatar,
                 "listening")
        ELSE SetExpression(avatar, "thinking")
    /\ run' = [run EXCEPT !.autos = @ + 1]

\* _autonomous_behavior called whatever the loop is doing and without its
\* look at chat_active
AutonomousAnytime ==
    /\ run.at = "loop"
    /\ run.running
    /\ \E analyse \in BOOLEAN : \E reset \in BOOLEAN : \E remembered \in BOOLEAN :
          AutonomousActs(analyse, reset, remembered)
    /\ UNCHANGED <<pc, response_text, streamed, pending, tool_calls, idx, speak,
                   vm, working, oplog, failed, reports, ended, cut_in_tag, anim,
                   quiet, wire>>

\* _autonomous_behavior(): it returns at once in chat mode; else random() is
\* below 0.01 (analyse), below 0.001 (reset), or both
Autonomous ==
    /\ BetweenSteps
    /\ ~run.chat_active
    /\ \E analyse \in BOOLEAN : \E reset \in BOOLEAN : \E remembered \in BOOLEAN :
          AutonomousActs(analyse, reset, remembered)
    /\ UNCHANGED <<pc, response_text, streamed, pending, tool_calls, idx, speak,
                   vm, working, oplog, failed, reports, ended, cut_in_tag, anim,
                   quiet, wire>>

NextLoop ==
    \/ Next
    \/ CaptureStarts
    \/ CaptureEnds
    \/ Autonomous

\* Orchestrator() with qemu.qmp installed and nothing remembered yet
InitLoop ==
    /\ Init
    /\ wire.lib = "qmp"
    /\ longterm = <<>>

SpecLoop == InitLoop /\ [][NextLoop]_vars

(***************************************************************************)
(* _handle_events, one action per KEYDOWN event.  pc is "idle" while chat  *)
(* mode is on with a non-blank chat_input and "ready" otherwise; the turn  *)
(* that RETURN starts is SendMessage.                                      *)
(***************************************************************************)
\* the characters of the keys pressed, other than the T key
TypedChars == {"a", "b"}

\* the keys whose event.unicode is printable
PrintableKeys == TypedChars \cup {"t"}

\* where the turn stands after an event that left chat mode and input so
AfterKey(r) == IF r.chat_active /\ r.typed THEN "idle" ELSE "ready"

keyOther ==
    <<response_text, streamed, pending, tool_calls, idx, speak, vm, working,
      longterm, oplog, failed, reports, ended, cut_in_tag, anim, quiet, wire>>

\* an event can be handled: the loop runs and no turn is awaited
KeyHandled ==
    /\ run.at = "loop"
    /\ pc \in {"ready", "idle"}
    /\ run.keys < MaxKeys

\* K_ESCAPE: chat mode is closed and chat_input emptied, LISTENING; with
\* chat mode off, running = False
EvEscape ==
    /\ KeyHandled
    /\ IF run.chat_active
       THEN /\ run' = [run EXCEPT !.chat_active = FALSE, !.chat_input = <<>>,
                                  !.typed = FALSE,
                                  !.key = "escape", !.keys = @ + 1]
            /\ avatar' = SetExpression(avatar, "listening")
       ELSE /\ run' = [run EXCEPT !.running = FALSE,
                                  !.key = "escape", !.keys = @ + 1]
            /\ UNCHANGED avatar
    /\ pc' = AfterKey(run')
    /\ UNCHANGED keyOther

\* K_t: chat_active = not chat_active, and THINKING if it is on now; the
\* branch stands before the one of chat mode
EvT ==
    /\ KeyHandled
    /\ run' = [run EXCEPT !.chat_active = ~@, !.key = "t", !.keys = @ + 1]
    /\ avatar' = IF run'.chat_active THEN SetExpression(avatar, "thinking")
                 ELSE avatar
    /\ pc' = AfterKey(run')
    /\ UNCHANGED keyOther

\* K_RETURN with a blank chat_input, or with chat mode off: nothing
EvReturnBlank ==
    /\ KeyHandled
    /\ ~(run.chat_active /\ run.typed)
    /\ run' = [run EXCEPT !.key = "return", !.keys = @ + 1]
    /\ UNCHANGED <<pc, avatar>>
    /\ UNCHANGED keyOther

\* K_BACKSPACE: chat_input[:-1] in chat mode
EvBackspace ==
    /\ KeyHandled
    /\ run' = [run EXCEPT
                  !.chat_input = IF run.chat_active /\ @ # <<>>
                                 THEN SubSeq(@, 1, Len(@) - 1) ELSE @,
                  !.typed = IF run.chat_active THEN Len(run.chat_input) > 1
                            ELSE @,
                  !.key = "backspace", !.keys = @ + 1]
    /\ pc' = AfterKey(run')
    /\ UNCHANGED avatar
    /\ UNCHANGED keyOther

\* any other key with a printable event.unicode: appended in chat mode
EvPrintable ==
    /\ KeyHandled
    /\ \E c \in TypedChars :
        run' = [run EXCEPT
                   !.chat_input = IF run.chat_active THEN Append(@, c) ELSE @,
                   !.typed = IF run.chat_active THEN TRUE ELSE @,
                   !.key = c, !.keys = @ + 1]
    /\ pc' = AfterKey(run')
    /\ UNCHANGED avatar
    /\ UNCHANGED keyOther

NextKeys ==
    \/ Initialize
    \/ EvEscape
    \/ EvT
    \/ EvReturnBlank
    \/ EvBackspace
    \/ EvPrintable
    \/ SendMessage

SpecKeys == Init /\ [][NextKeys]_vars

(***************************************************************************)
(* Properties of the chat turn                                             *)
(***************************************************************************)
\* the for loop of _execute_tool_calls has been left
LoopOver ==
    /\ ended = "done"
    /\ tool_calls # <<>>
    /\ pc \in {"remember", "returned", "crashed"}

\* the calls for which "Tool call failed" was written
Raised == {r.ref : r \in {x \in reports : x.kind = "tool_call_failed"}}

\* the places in oplog where call i was taken up
StartsOf(i) == {p \in DOMAIN oplog : oplog[p] = <<"start", i>>}

EndsOf(i) == {p \in DOMAIN oplog : oplog[p] = <<"end", i>>}

\* C1: when the operation of call k raises, each of the calls k+1..n is
\* still taken up after call k has ended, and runs to its end, in order
C1_FailingCallDoesNotAbort ==
    LoopOver =>
        \A k \in Raised : \A j \in (k + 1)..Len(tool_calls) :
            /\ \E p \in EndsOf(j - 1) : \E q \in StartsOf(j) : p < q
            /\ \E q \in StartsOf(j) : \E r \in EndsOf(j) : q < r

C1_Witness ==
    /\ LoopOver
    /\ pc = "returned"
    /\ Len(tool_calls) >= 2
    /\ 1 \in Raised
    /\ StartsOf(2) # {}

\* C2: the calls reported as failed are exactly the calls whose operation
\* failed, a vm_screenshot without a capture or an analysis included
C2_ReportedEqualsFailed == LoopOver => Raised = failed

\* C3: the calls are taken up in the textual order of their spans, and a
\* call is taken up only when the call before it has ended
C3_TextualOrderSequential ==
    /\ \A i \in DOMAIN tool_calls :
          /\ tool_calls[i].at \in 1..(Len(response_text) - 1)
          /\ response_text[tool_calls[i].at] = OpenHead
    /\ \A p \in DOMAIN oplog : \A q \in DOMAIN oplog :
          (p < q /\ oplog[p][1] = "start" /\ oplog[q][1] = "start") =>
              /\ tool_calls[oplog[p][2]].at < tool_calls[oplog[q][2]].at
              /\ \E r \in EndsOf(oplog[p][2]) : p < r /\ r < q

C3_Witness ==
    /\ pc = "returned"
    /\ Len(tool_calls) >= 2
    /\ StartsOf(1) # {}
    /\ StartsOf(2) # {}

\* C4: when _send_message returns after start_talking, stop_talking has
\* been called and is_talking is false, however the stream ended
C4_StopFollowsStart ==
    (pc = "returned" /\ avatar.starts > 0) =>
        (avatar.stops > 0 /\ ~avatar.state.is_talking)

\* C5: in a completed turn whose response holds no span, speak_text has run
\* and is_talking went from true to false exactly once
C5_FallbackTalkingFallsOnce ==
    (pc = "returned" /\ ended = "done" /\ Matches(response_text, 1) = <<>>) =>
        (avatar.starts = 2 /\ avatar.falls = 1)

\* C6: a complete animation tick after stop_talking, with no other write to
\* the mouth in between, finds mouth_open of AvatarState and the MouthOpen
\* parameter sent to the avatar both at 0, whatever the waveform or
\* set_mouth_open had written before.
C6_MouthZeroAfterStop ==
    quiet = "ticked" =>
        /\ avatar.state.mouth_open = 0
        /\ avatar.emitted["MouthOpen"] = 0

\* C7: the tool calls extracted at the terminal chunk are those of the whole
\* text in one piece, however the text was cut into chunks, and all of them
\* are dispatched
C7_ChunkingDoesNotMatter ==
    /\ ended = "done" => tool_calls = ExtractToolCalls(streamed)
    /\ (ended = "done" /\ pc = "returned") =>
          \A i \in DOMAIN ExtractToolCalls(streamed) : StartsOf(i) # {}

C7_Witness ==
    /\ ended = "done"
    /\ pc = "returned"
    /\ cut_in_tag
    /\ Len(tool_calls) >= 2

\* C8: a complete span with a name whose arguments json.loads rejects still
\* gives a tool call with that name and empty arguments
C8_UnparseableArgsKept ==
    ended = "done" =>
        \A k \in DOMAIN Matches(response_text, 1) :
            ParseFailed(Matches(response_text, 1)[k]) =>
                \E i \in DOMAIN tool_calls :
                    /\ tool_calls[i].at = Matches(response_text, 1)[k].at
                    /\ tool_calls[i].name =
                          NameMatch(Matches(response_text, 1)[k].body).name
                    /\ tool_calls[i].args = "empty"

\* C9: no span gives two tool calls, no tool call is taken up twice, and
\* when the loop is over every tool call has been taken up once
C9_EachCallOnce ==
    /\ \A i \in DOMAIN tool_calls : \A j \in DOMAIN tool_calls :
          i # j => tool_calls[i].at # tool_calls[j].at
    /\ \A p \in DOMAIN oplog : oplog[p][2] \in DOMAIN tool_calls
    /\ \A i \in DOMAIN tool_calls : Cardinality(StartsOf(i)) <= 1
    /\ LoopOver => \A i \in DOMAIN tool_calls : Cardinality(StartsOf(i)) = 1

C9_Witness ==
    /\ LoopOver
    /\ pc = "returned"
    /\ cut_in_tag
    /\ Len(tool_calls) >= 2
    /\ Len(Matches(response_text, 1)) = Len(tool_calls)

\* C10: no tool call is extracted or taken up before the terminal chunk, nor
\* in a turn ended by an error chunk or by the end of the stream
C10_DispatchOnlyAfterDone ==
    ended # "done" => (tool_calls = <<>> /\ oplog = <<>> /\ failed = {})

C10_Witness ==
    /\ pc = "returned"
    /\ ended = "error"
    /\ ExtractToolCalls(response_text) # <<>>

\* the calls about which the loop, or an operation it called, wrote a report
ReportedCalls ==
    {r.ref : r \in {x \in reports :
        x.kind \in {"tool_call_failed", "analysis_failed", "capture_failed"}}}

\* C12: when the loop is over, every tool call whose name is none of the
\* known operations has been reported
C12_UnknownReportedSkipped ==
    LoopOver =>
        \A i \in DOMAIN tool_calls :
            tool_calls[i].name \notin KnownTools => i \in ReportedCalls

\* C13: when the loop takes up a call and the operation of the call before
\* it has raised, the avatar's expression is SAD
C13_SadBeforeNextCall ==
    (pc = "exec" /\ idx >= 2 /\ (idx - 1) \in Raised) =>
        avatar.state.expression = "sad"

C13_Witness ==
    /\ pc = "exec"
    /\ idx = 2
    /\ 1 \in Raised
    /\ avatar.state.expression = "sad"

\* round(n / d) as Python rounds: to the nearest integer, a tie to the even one
RoundHalfEven(n, d) ==
    LET q == n \div d
        r == n % d
    IN  IF 2 * r < d THEN q
        ELSE IF 2 * r > d THEN q + 1
        ELSE IF q % 2 = 0 THEN q ELSE q + 1

\* C11: the axis values of a click sent over QMP are the pixel coordinates
\* scaled to 0..32767 and rounded to the nearest integer
C11_ClickRounds ==
    wire.click # <<>> =>
        /\ wire.click[3] = RoundHalfEven(wire.click[1] * AxisMax, VmWidth)
        /\ wire.click[4] = RoundHalfEven(wire.click[2] * AxisMax, VmHeight)

\* C14: once a command has raised on a session, the controller is no longer
\* RUNNING and no later command reaches the VM before the next connect
C14_DeadAfterTransportError ==
    /\ wire.errored => vm.state # "running"
    /\ ~wire.late

\* C15: the controller never has more than one session open
C15_AtMostOneSession == wire.open <= 1

\* C16: a connect that met a connection error on QMP has tried VNC as well
C16_FallbackOnQmpFailure == wire.last = "qmp_fail" => "vnc" \in wire.tried

\* the value reset() and look_at(0, 0) give a parameter
Neutral(name) ==
    IF name \in {"EyeLookUpLeft", "EyeLookDownLeft", "EyeLookUpRight",
                 "EyeLookDownRight"}
    THEN 500 ELSE 0

\* C19: when stop has returned, the value last sent for every parameter the
\* controller has sent is the neutral one, and AvatarState is the default
C19_NeutralAfterStop ==
    anim.pc = "stopped" =>
        /\ avatar.state = DefaultState
        /\ \A name \in DOMAIN avatar.emitted :
              avatar.emitted[name] = Neutral(name)

\* the operations of the tool calls that go to the VM
VmTools == {"vm_click", "vm_type", "vm_press_key", "vm_screenshot"}

\* C17: when connect has failed, initialize has still set running, every
\* get_screenshot gives None and no command of a tool call reaches the VM
C17_ObservationMode ==
    (pc # "boot" /\ vm.state = "error") =>
        /\ run.running
        /\ ShotOutcomes(vm) \subseteq {"raised", "noclient"}
        /\ ~wire.stray
        /\ ~wire.late

\* a turn in observation mode with a VM tool call in it has run to its end
C17_Witness ==
    /\ vm.state = "error"
    /\ run.running
    /\ pc = "returned"
    /\ ended = "done"
    /\ \E i \in DOMAIN tool_calls :
          /\ tool_calls[i].name \in VmTools
          /\ StartsOf(i) # {}
          /\ EndsOf(i) # {}

\* C18: no error of a chat turn takes main out of the run loop into its
\* except branch
C18_LoopSurvivesErrors == run.at # "except"

\* the parameters reset() sends
ResetNames ==
    {"MouthOpen", "EyeBlinkLeft", "EyeBlinkRight", "BrowInnerUp",
     "MouthSmileLeft", "EyeLookUpLeft", "EyeLookDownLeft"}

\* the animation task has ended and what reset() sent is the last value of
\* each of its parameters
AnimationEnded ==
    /\ anim.pc = "stopped"
    /\ \A name \in ResetNames :
          name \in DOMAIN avatar.emitted /\ avatar.emitted[name] = Neutral(name)

\* C20: in shutdown the VM controller changes only after the animation task
\* has ended and reset() has sent; once shutdown has returned the controller
\* holds no handle, the task has ended and no parameter is sent any more
C20_StopBeforeDisconnect ==
    /\ [][run.at # "init" /\ vm' # vm => AnimationEnded]_vars
    /\ [](run.at = "down" =>
            vm.qmp = "none" /\ vm.vnc = "none" /\ AnimationEnded)
    /\ [][run.at = "down" => avatar' = avatar]_vars

\* shutdown has returned after a session that was open and an animation task
\* that had run
C20_Witness ==
    /\ run.at = "down"
    /\ wire.connects > 0
    /\ wire.last \in {"qmp_ok", "vnc_ok"}
    /\ anim.t > 0
    /\ anim.pc = "stopped"

\* C23: a call that is neither start_talking nor stop_talking (set_expression
\* among them) leaves is_talking as it is, and an iteration of the animation
\* loop that finds is_talking true leaves the value of the waveform as the
\* last MouthOpen sent, whatever the expression's table had sent
C23_TalkingMouthWins ==
    /\ [][(anim' = anim /\ avatar'.starts = avatar.starts
                        /\ avatar'.stops = avatar.stops) =>
              avatar'.state.is_talking = avatar.state.is_talking]_vars
    /\ [][(anim.pc = "top" /\ anim' # anim /\ avatar.state.is_talking) =>
              avatar'.emitted["MouthOpen"] = MouthWave[anim.t + 1]]_vars

\* SURPRISED was set while talking (MouthOpen 0.5 sent) and an iteration of
\* the animation loop has since sent the waveform over it
C23_Witness ==
    /\ avatar.state.expression = "surprised"
    /\ avatar.state.is_talking
    /\ anim.t > 0
    /\ avatar.emitted["MouthOpen"] = MouthWave[anim.t]
    /\ avatar.emitted["BrowInnerUp"] = IdleBrow[anim.t]

\* C24: every parameter but MouthOpen that the table of the current
\* expression sets still has the table's value as the last one sent
C24_TickKeepsExpression ==
    \A k \in DOMAIN ExpressionValues(avatar.state.expression) :
        ExpressionValues(avatar.state.expression)[k][1] # "MouthOpen" =>
            avatar.emitted[ExpressionValues(avatar.state.expression)[k][1]]
                = ExpressionValues(avatar.state.expression)[k][2]

\* C26: while the animation task stands between the first and the last send
\* of an iteration (at the sleep of its blink), no other coroutine sends a
\* parameter or writes AvatarState
C26_SingleWriter ==
    [][anim.pc = "blink" =>
          \/ anim' # anim
          \/ avatar'.emitted = avatar.emitted /\ avatar'.state = avatar.state]_vars

\* speak_text stands at one of its sleeps
Speaking == pc \in {"sp_high", "sp_low", "sp_blink"}

\* C25: while speak_text runs, no step of the animation task sends MouthOpen
\* or writes mouth_open: the last value sent stays the one of the word
C25_PulsesOverrideWave ==
    [][(Speaking /\ anim' # anim) =>
          /\ avatar'.emitted["MouthOpen"] = avatar.emitted["MouthOpen"]
          /\ avatar'.state.mouth_open = avatar.state.mouth_open]_vars

\* C21: no step taken while _send_message is in flight is one of
\* _autonomous_behavior
C21_NoAutonomyInTurn == [][InTurn => run'.autos = run.autos]_vars

\* a turn waits for the VM, a screenshot is at hand and the VM runs, and the
\* autonomous behaviour has acted before the turn
C21_Witness ==
    /\ pc = "op"
    /\ run.shot
    /\ vm.state = "running"
    /\ run.autos > 0
    /\ run.chat_active

\* C22: while a chat turn is in flight the run loop can take its next step,
\* the screen capture
C22_LoopTicksDuringTurn == InTurn => ENABLED CaptureStarts

\* the requests awaited on the VM session: the one of the tool call the
\* dispatch loop waits for and the one of the periodic capture
InFlight ==
    (IF pc = "op" /\ tool_calls[idx].name \in VmTools THEN 1 ELSE 0)
        + (IF run.at = "capture" THEN 1 ELSE 0)

\* C27: at most one request is awaited on the VM session
C27_OneRequestInFlight == InFlight <= 1

\* a tool call's request is in flight on a live session on which the
\* periodic capture has got a screenshot before
C27_Witness ==
    /\ InFlight = 1
    /\ pc = "op"
    /\ Transmits(vm)
    /\ run.shot

\* where an event of click stands in pointer x, pointer y, button down,
\* button up
ClickRank(e) ==
    CASE e.type = "abs" /\ e.what = "x" -> 1
      [] e.type = "abs" /\ e.what = "y" -> 2
      [] e.type = "btn" /\ e.down -> 3
      [] e.type = "btn" /\ ~e.down -> 4
      [] OTHER -> 0

\* the keys that are modifiers
Modifiers == {"shift"}

\* C28: the events a command has handed to the session so far stand in the
\* order of the call: a click's as pointer x, pointer y, button down, button
\* up; those of an earlier character of type_text before those of a later
\* one; within a character every key up after that key's down, a modifier
\* down before the other key's down and up after the other key's up
C28_EventsInOrder ==
    LET E == wire.events IN
    /\ wire.call = "click" =>
          \A i \in DOMAIN E : \A j \in DOMAIN E :
              i < j => /\ ClickRank(E[i].ev) > 0
                       /\ ClickRank(E[i].ev) < ClickRank(E[j].ev)
    /\ \A i \in DOMAIN E : \A j \in DOMAIN E : i < j => E[i].ch <= E[j].ch
    /\ \A j \in DOMAIN E :
          (E[j].ev.type = "key" /\ ~E[j].ev.down) =>
              \E i \in 1..(j - 1) :
                  /\ E[i].ch = E[j].ch
                  /\ E[i].ev = [E[j].ev EXCEPT !.down = TRUE]
    /\ \A i \in DOMAIN E : \A j \in DOMAIN E :
          (/\ E[i].ch = E[j].ch
           /\ E[i].ev.type = "key" /\ E[j].ev.type = "key"
           /\ E[i].ev.what \in Modifiers /\ E[j].ev.what \notin Modifiers
           /\ E[i].ev.down = E[j].ev.down) =>
              IF E[i].ev.down THEN i < j ELSE j < i

\* type_text has sent a capital and a shifted sign to the end
C28_Witness ==
    /\ NoCommand
    /\ wire.call = "type_text"
    /\ Len(wire.events) = 6
    /\ wire.events[3].ev.what = "shift"
    /\ wire.events[6].ev.what = "shift"

\* C29: every value of an absolute axis handed to the session lies in
\* 0..32767
C29_AxisInRange ==
    \A i \in DOMAIN wire.events :
        wire.events[i].ev.type = "abs" =>
            wire.events[i].ev.value \in 0..AxisMax

\* C30: an execute that waits for its reply gets back to its caller
C30_CommandsReturn == wire.awaiting ~> ~wire.awaiting

\* the parameters that the table of some expression sets
TableNames(e) ==
    {ExpressionValues(e)[k][1] : k \in DOMAIN ExpressionValues(e)}

ExpressionLinked == UNION {TableNames(e) : e \in AvatarExpressions}

\* C32: a set_expression that changes the expression leaves every parameter
\* of some expression's table that is not in the new expression's table, and
\* that has been sent at all, with its neutral value as the last one sent
C32_ResetBeforeTable ==
    [][avatar'.state.expression # avatar.state.expression =>
          \A name \in ExpressionLinked \ TableNames(avatar'.state.expression) :
              name \in DOMAIN avatar'.emitted =>
                  avatar'.emitted[name] = Neutral(name)]_vars

\* C35: when a chat turn has completed (a done chunk, the response
\* remembered), the turn has changed working memory by exactly the user
\* message and the assistant message, in that order, and no system message
\* is left in it
C35_TurnAppendsTwo ==
    (pc = "returned" /\ ended = "done") => working = <<"user", "assistant">>

\* C37: once the stream has yielded an error chunk (with a message or with
\* an empty one), the turn has ended with is_talking false and the
\* expression SAD, no tool call was dispatched, nothing was stored in
\* long-term memory and no assistant message was appended to working memory
C37_ErrorChunkEndsTurn ==
    ended \in {"error", "keyerror"} =>
        /\ pc = "returned"
        /\ ~avatar.state.is_talking
        /\ avatar.state.expression = "sad"
        /\ tool_calls = <<>> /\ oplog = <<>>
        /\ \A k \in DOMAIN longterm : longterm[k] # "response"
        /\ \A k \in DOMAIN working : working[k] # "assistant"

\* C36: in every state of VMController, state RUNNING implies that a client
\* handle is held, and state ERROR or STOPPED implies that none is held
C36_StateMatchesHandles ==
    /\ vm.state = "running" => (vm.qmp # "none" \/ vm.vnc # "none")
    /\ vm.state \in {"error", "stopped"} => (vm.qmp = "none" /\ vm.vnc = "none")

\* C34: when a device operation has ended, by returning or by an exception
\* of an execute, every button or key down event that was sent is followed
\* by the up event of the same button or key
C34_NothingHeldDown ==
    LET E == wire.events IN
    (NoCommand /\ wire.call # "") =>
        \A i \in DOMAIN E :
            (E[i].ev.type \in {"btn", "key"} /\ E[i].ev.down) =>
                \E j \in DOMAIN E :
                    /\ i < j
                    /\ E[j].ev = [E[i].ev EXCEPT !.down = FALSE]

\* C39: while chat mode is on, the KEYDOWN event of a printable key other
\* than RETURN, BACKSPACE and ESC appends its character to chat_input and
\* leaves chat mode on
C39_PrintableKeysAreTyped ==
    [][(/\ run'.keys = run.keys + 1
        /\ run.chat_active
        /\ run'.key \in PrintableKeys) =>
           /\ run'.chat_active
           /\ run'.chat_input = Append(run.chat_input, run'.key)]_vars

\* C38: when main returns after a run in which initialize completed,
\* shutdown() has been executed exactly once
C38_ShutdownOnce == run.at = "exit" => run.shutdowns = 1

\* the animation loops of the controller that have not ended
ActiveLoops ==
    avatar.orphans + (IF anim.pc \in {"top", "blink"} THEN 1 ELSE 0)

\* C40: at most one animation loop of the controller is active at any time,
\* and none is once stop() has returned
C40_OneAnimationLoop ==
    /\ ActiveLoops <= 1
    /\ anim.pc = "stopped" => ActiveLoops = 0

\* the last value sent for the eye-blink parameter name is v
EyeSent(name, v) ==
    name \in DOMAIN avatar.emitted /\ avatar.emitted[name] = v

C31_FreshOrNone ==
    LET sh == wire.shots IN
    /\ sh.result = 0 \/ (sh.result = sh.n /\ sh.result \notin sh.returned)
    /\ sh.caught => sh.result = 0

\* a call has returned its own capture from a path at which an earlier call
\* had left a file
C31_Witness ==
    /\ wire.shots.result = wire.shots.n
    /\ wire.shots.result # 0
    /\ wire.shots.leftover
    /\ wire.shots.returned # {}

=============================================================================
